---- MODULE Spec2Model ----
(***************************************************************************)
(* Baby Care Tracker: broker connector, message normalizer, mapping        *)
(* resolver, event store and sleep-session reconstruction, modelled from   *)
(* mqtt_client.py, device_manager.py, database.py, analytics.py, main.py.  *)
(***************************************************************************)
EXTENDS Integers, Sequences, FiniteSets, TLC

VARIABLES
    \* ---- broker connector (mqtt_client.py, class MQTTClient)
    connected,        \* self.connected
    reconnect_delay,  \* self.reconnect_delay
    timers,           \* pending threading.Timer objects, each by its delay
    sock,             \* state of the client's network connection
    loopRunning,      \* the network loop thread started by loop_start()
    disconnectCalled, \* history: disconnect() has been called
    rc0Pending,       \* a disconnect notification with rc = 0 is due
    last,             \* history: the handler that ran last, with its outcome
    nSched,           \* history: retries scheduled since the last successful connect
    lastSched,        \* history: delay of the most recently scheduled retry
    wire,             \* history: what the last handler handed to the client to send
    closed,           \* history: disconnect() has closed the connection
    \* ---- mapping storage (device_manager.py, database.py)
    mapfile,          \* rows of /data/device_mappings.json
    dbmaps,           \* rows of table device_mappings
    resolved,         \* the last mapping resolution and what it returned
    \* ---- event store and ingestion (database.py, main.py, mqtt_client.py)
    events,           \* rows of table baby_care_events, in insertion order
    clock,            \* datetime.utcnow()
    inbox,            \* broker messages delivered to the client, oldest first
    arrived,          \* history: number of broker messages that arrived
    handler,          \* the loop thread inside _on_message / on_device_event
    callers,          \* the API requests inside add_event
    returned,         \* history: ids returned by add_event, in order of return
    handled,          \* history: one record per broker message handled
    \* ---- sleep analytics (analytics.py)
    sleep_events,     \* the argument of _calculate_sleep_sessions
    sessions,         \* its result
    sleepDone,        \* the function has returned
    mapIssued,        \* history: the ids add_mapping has returned
    mapCall,          \* history: the last add_mapping call and whether it raised
    \* ---- event table under append, delete, cleanup and query (database.py)
    log,              \* the rows of baby_care_events, in insertion order
    issued,           \* history: the ids add_event has returned, with the caller
    now,              \* datetime.utcnow()
    answer,           \* the last result of get_events and its arguments
    opres,            \* what the last cleanup_old_data or update_event returned
    \* ---- the message handler on its own (mqtt_client.py)
    nmsg,             \* the message _on_message is called with, or NoMessage
    nlog,             \* history: what _on_message did with each message
    escaped,          \* an exception has left _on_message
    \* ---- the analytics over the stored events (analytics.py)
    an_events,        \* the stored events, in insertion order
    an_days,          \* the argument days of a get_*_analytics call
    an_sessions,      \* history: the sleep sessions the last call reconstructed
    an_result,        \* what the last analytics call returned
    an_done,          \* the call has returned
    \* ---- schema migrations at startup (migrations.py)
    db_exists,        \* os.path.exists(db_path)
    schema_version,   \* the rows of the table schema_version, oldest first
    mig_target,       \* the target_version run_migrations is called with
    mig_last,         \* history: what the last run found, applied and raised
    mig_runs,         \* history: number of runs
    \* ---- concurrent calls of the mapping store (device_manager.py)
    mapWorkers,       \* each request inside _store_mapping / _delete_mapping
    mapOps,           \* history: the calls that have returned, in order
    overlapped        \* history: a call loaded the file while another was inside

connVars == <<connected, reconnect_delay, timers, sock, loopRunning,
              disconnectCalled, rc0Pending, last, nSched, lastSched, wire, closed>>

mapVars == <<mapfile, dbmaps, resolved, mapIssued, mapCall>>

storeVars == <<events, clock, inbox, arrived, handler, callers, returned, handled>>

sleepVars == <<sleep_events, sessions, sleepDone>>

logVars == <<log, issued, now, answer, opres>>

normVars == <<nmsg, nlog, escaped>>

anVars == <<an_events, an_days, an_sessions, an_result, an_done>>

migVars == <<db_exists, schema_version, mig_target, mig_last, mig_runs>>

raceVars == <<mapWorkers, mapOps, overlapped>>

vars == <<connVars, mapVars, storeVars, sleepVars, logVars, normVars, anVars, migVars, raceVars>>

(***************************************************************************)
(* Bounds                                                                  *)
(***************************************************************************)
MaxTimers == 2       \* pending reconnect timers kept by the model
SchedCap == 9        \* nSched saturates here (the delay has reached the cap)
MaxMsgs == 2         \* broker messages that arrive
MaxEvents == 3       \* rows of baby_care_events
MaxClock == 2        \* readings of the clock
NumCallers == 2      \* concurrent API requests
MaxMappings == 2     \* rows of a mapping store
MaxSleepEvents == 3  \* events handed to the sleep analytics
MaxMapIssued == 2    \* add_mapping calls that return an id in one behaviour
MaxHandled == 2      \* messages handed to the message handler on its own
MaxRows == 2         \* rows of baby_care_events at one time
MaxIssued == 3       \* appends in one behaviour
MaxNow == 2          \* readings of utcnow in the event table specification
CleanupDays == 1     \* the cleanup_days setting, in clock readings
MaxLimit == 2        \* largest limit of a query
MaxOffset == 1       \* largest offset of a query
MaxStored == 6       \* stored events in the live-status runs
MaxDays == 2         \* the largest argument days of an analytics call
MaxIntervalEvents == 3 \* events handed to the interval calculation
MaxRuns == 3         \* runs of the migrations
MaxMapOps == 3       \* calls of the mapping store in the concurrent runs
MaxWeeks == 2        \* weeks_back of the weekly statistics
RangeLimit == 4      \* the limit of a range query: 1000 in database.py, scaled to the tables of the model

Min(a, b) == IF a <= b THEN a ELSE b

(***************************************************************************)
(* Broker connector                                                        *)
(***************************************************************************)
InitialReconnectDelay == 5
max_reconnect_delay == 300

\* the return codes the broker answers a CONNECT with / the loop reports
ConnackCodes == {0, 5}
LostCodes == {1}

\* line 82 and line 110: self.reconnect_delay = min(self.reconnect_delay * 2, ...)
NextDelayNoCap(d) == d * 2
NextDelay(d) == Min(d * 2, max_reconnect_delay)

\* line 88: self.reconnect_delay = 5
KeepDelay(d) == d
ResetDelay(d) == InitialReconnectDelay

\* publish(): the message is handed to the client only when self.connected
PublishDropped(isConnected, message) == <<>>
Publish(isConnected, message) == IF isConnected THEN <<message>> ELSE <<>>

\* _publish_status(status): retained, on baby_care_tracker/addon/status
PublishStatus(isConnected, status) == Publish(isConnected, status)

\* lines 81-82 and 109-110: threading.Timer(self.reconnect_delay, self._connect).start()
\* followed by the doubling of the delay; ts are the timers pending before
ScheduleReconnect(ts) ==
    /\ timers' = Append(ts, reconnect_delay)
    /\ lastSched' = reconnect_delay
    /\ nSched' = Min(nSched + 1, SchedCap)
    /\ reconnect_delay' = NextDelay(reconnect_delay)

\* _connect, run by an expiring timer (ts are the timers that stay pending):
\* client.connect raises (raised = TRUE) and the retry is scheduled, or it opens
\* the connection and loop_start() starts the loop thread
Connect(ts, raised) ==
    /\ last' = [op |-> "_connect", rc |-> IF raised THEN 1 ELSE 0]
    /\ IF raised
       THEN /\ ScheduleReconnect(ts)
            /\ sock' = "none"
            /\ UNCHANGED loopRunning
       ELSE /\ timers' = ts
            /\ sock' = "tcp"
            /\ loopRunning' = TRUE
            /\ UNCHANGED <<reconnect_delay, lastSched, nSched>>
    /\ wire' = <<>>
    /\ UNCHANGED <<connected, disconnectCalled, rc0Pending, closed>>
    /\ UNCHANGED <<mapVars, storeVars, sleepVars, logVars, normVars, anVars, migVars, raceVars>>

\* a pending reconnect timer expires and runs _connect
TimerFire ==
    \E i \in 1..Len(timers), raised \in BOOLEAN :
        Connect(SubSeq(timers, 1, i - 1) \o SubSeq(timers, i + 1, Len(timers)), raised)

\* _on_connect(rc), called by the loop thread when the broker answers
OnConnect ==
    \E rc \in ConnackCodes :
        /\ loopRunning
        /\ sock = "tcp"
        /\ last' = [op |-> "_on_connect", rc |-> rc]
        /\ IF rc = 0
           THEN /\ connected' = TRUE
                /\ reconnect_delay' = ResetDelay(reconnect_delay)
                /\ nSched' = 0
                /\ sock' = "up"
                /\ wire' = <<"SUBSCRIBE">> \o PublishStatus(connected', "online")
           ELSE /\ connected' = FALSE
                /\ sock' = "refused"
                /\ wire' = <<>>
                /\ UNCHANGED <<reconnect_delay, nSched>>
        /\ UNCHANGED <<timers, loopRunning, disconnectCalled, rc0Pending, lastSched, closed>>
        /\ UNCHANGED <<mapVars, storeVars, sleepVars, logVars, normVars, anVars, migVars, raceVars>>

\* _on_disconnect that forgets to schedule the reconnection
OnDisconnectLostNoTimer ==
    \E rc \in LostCodes :
        /\ loopRunning
        /\ sock \in {"tcp", "up", "refused"}
        /\ last' = [op |-> "_on_disconnect", rc |-> rc]
        /\ connected' = FALSE
        /\ sock' = "none"
        /\ wire' = <<>>
        /\ UNCHANGED <<reconnect_delay, timers, nSched, lastSched,
                       loopRunning, disconnectCalled, rc0Pending, closed>>
        /\ UNCHANGED <<mapVars, storeVars, sleepVars, logVars, normVars, anVars, migVars, raceVars>>

\* _on_disconnect(rc) with rc != 0: the loop thread lost the connection
OnDisconnectLost ==
    \E rc \in LostCodes :
        /\ loopRunning
        /\ sock \in {"tcp", "up", "refused"}
        /\ Len(timers) < MaxTimers
        /\ last' = [op |-> "_on_disconnect", rc |-> rc]
        /\ connected' = FALSE
        /\ sock' = "none"
        /\ ScheduleReconnect(timers)
        /\ wire' = <<>>
        /\ UNCHANGED <<loopRunning, disconnectCalled, rc0Pending, closed>>
        /\ UNCHANGED <<mapVars, storeVars, sleepVars, logVars, normVars, anVars, migVars, raceVars>>

\* _on_disconnect(0): the notification that follows client.disconnect()
OnDisconnectClean ==
    /\ rc0Pending
    /\ last' = [op |-> "_on_disconnect", rc |-> 0]
    /\ connected' = FALSE
    /\ rc0Pending' = FALSE
    /\ wire' = <<>>
    /\ UNCHANGED <<reconnect_delay, timers, sock, loopRunning, disconnectCalled,
                   nSched, lastSched, closed>>
    /\ UNCHANGED <<mapVars, storeVars, sleepVars, logVars, normVars, anVars, migVars, raceVars>>

\* the loop thread re-establishes a lost connection by itself
LoopReconnect ==
    /\ loopRunning
    /\ sock = "none"
    /\ last' = [op |-> "loop", rc |-> 0]
    /\ sock' = "tcp"
    /\ wire' = <<>>
    /\ UNCHANGED <<connected, reconnect_delay, timers, loopRunning, disconnectCalled,
                   rc0Pending, nSched, lastSched, closed>>
    /\ UNCHANGED <<mapVars, storeVars, sleepVars, logVars, normVars, anVars, migVars, raceVars>>

\* disconnect()
Disconnect ==
    /\ last' = [op |-> "disconnect", rc |-> 0]
    /\ disconnectCalled' = TRUE
    /\ IF connected
       THEN /\ wire' = PublishStatus(connected, "offline") \o <<"DISCONNECT">>
            /\ loopRunning' = FALSE
            /\ rc0Pending' = (rc0Pending \/ sock # "none")
            /\ sock' = "none"
            /\ closed' = TRUE
       ELSE /\ wire' = <<>>
            /\ UNCHANGED <<loopRunning, rc0Pending, sock, closed>>
    /\ UNCHANGED <<connected, reconnect_delay, timers, nSched, lastSched>>
    /\ UNCHANGED <<mapVars, storeVars, sleepVars, logVars, normVars, anVars, migVars, raceVars>>

\* __init__: connected = False, reconnect_delay = 5, then _connect()
InitConn ==
    \E raised \in BOOLEAN :
        /\ connected = FALSE
        /\ disconnectCalled = FALSE
        /\ rc0Pending = FALSE
        /\ wire = <<>>
        /\ closed = FALSE
        /\ last = [op |-> "_connect", rc |-> IF raised THEN 1 ELSE 0]
        /\ IF raised
           THEN /\ timers = <<InitialReconnectDelay>>
                /\ lastSched = InitialReconnectDelay
                /\ nSched = 1
                /\ reconnect_delay = NextDelay(InitialReconnectDelay)
                /\ sock = "none"
                /\ loopRunning = FALSE
           ELSE /\ timers = <<>>
                /\ lastSched = 0
                /\ nSched = 0
                /\ reconnect_delay = InitialReconnectDelay
                /\ sock = "tcp"
                /\ loopRunning = TRUE

(***************************************************************************)
(* Message normalizer (mqtt_client.py)                                     *)
(* A topic is the sequence of its '/'-separated segments.  A payload is    *)
(* [kind, f, text]: a JSON object with fields f (kind "dict"), any other   *)
(* JSON value (kind "scalar"), or text that is not JSON (kind "text").     *)
(* f"prefix_{x}" is the pair <<"prefix_", x>>; a bare segment s is <<s>>.  *)
(***************************************************************************)
NoFields == [k \in {} |-> ""]
Dict(f) == [kind |-> "dict", f |-> f, text |-> ""]
Scalar == [kind |-> "scalar", f |-> NoFields, text |-> ""]
Text(t) == [kind |-> "text", f |-> NoFields, text |-> t]

None == [ok |-> FALSE]
DeviceInfo(device_id, event_type, data) ==
    [ok |-> TRUE, device_id |-> device_id, event_type |-> event_type, data |-> data]

\* topic.startswith(prefix + '/') and topic.endswith('/' + suffix)
StartsWith(topic, prefix) == Len(topic) >= 2 /\ topic[1] = prefix
EndsWith(topic, suffix) == Len(topic) >= 2 /\ topic[Len(topic)] = suffix

\* json.loads with the fallback {'value': payload}
LoadPayload(p) == IF p.kind = "text" THEN Dict("value" :> p.text) ELSE p

\* truth value of a field value: None, False, 0 and "" are false
Truthy(v) == v \notin {"", "None", "False", "0"}
Has(data, k) == k \in DOMAIN data.f
\* data.get(k, default)
Get(data, k, default) == IF Has(data, k) THEN data.f[k] ELSE default

ParseZigbee2mqtt(topic, data) ==
    IF Len(topic) < 2 THEN None
    ELSE IF EndsWith(topic, "action")
    THEN IF data.kind # "dict" THEN None   \* data.get raises, caught
         ELSE IF Truthy(Get(data, "action", "None"))
              THEN DeviceInfo(<<"zigbee2mqtt_", topic[2]>>,
                              <<"action_", data.f["action"]>>, data)
              ELSE None
    ELSE IF ~EndsWith(topic, "availability") /\ ~EndsWith(topic, "linkquality")
    THEN IF data.kind # "dict" THEN None   \* no key of a non-object is read
         ELSE IF Has(data, "action")
              THEN DeviceInfo(<<"zigbee2mqtt_", topic[2]>>,
                              <<"action_", data.f["action"]>>, data)
         ELSE IF Has(data, "state")
              THEN DeviceInfo(<<"zigbee2mqtt_", topic[2]>>,
                              <<"state_", data.f["state"]>>, data)
         ELSE IF Has(data, "contact")
              THEN DeviceInfo(<<"zigbee2mqtt_", topic[2]>>,
                              <<"contact_", data.f["contact"]>>, data)
         ELSE IF Has(data, "occupancy")
              THEN DeviceInfo(<<"zigbee2mqtt_", topic[2]>>,
                              <<"motion_", data.f["occupancy"]>>, data)
         ELSE None
    ELSE None

HaDomains == {"switch", "binary_sensor", "sensor", "button"}

\* line 262 reads the name payload, which this method does not define: the
\* NameError is caught at line 272 and the method returns None
ParseHomeassistant(topic, data) ==
    IF Len(topic) >= 4 /\ topic[2] \in HaDomains THEN None ELSE None

ParseZwave(topic, data) ==
    IF Len(topic) >= 2 /\ EndsWith(topic, "action")
    THEN IF data.kind # "dict" THEN None   \* data.get raises, caught
         ELSE DeviceInfo(<<"zwave_", topic[2]>>,
                         <<"action_", Get(data, "action", Get(data, "value", "None"))>>,
                         data)
    ELSE None

ParseCustom(topic, data) ==
    IF Len(topic) >= 3
    THEN DeviceInfo(<<"custom_", topic[2]>>, <<topic[3]>>, data)
    ELSE None

ParseDeviceMessage(topic, payload) ==
    LET data == LoadPayload(payload)
    IN  IF StartsWith(topic, "zigbee2mqtt") THEN ParseZigbee2mqtt(topic, data)
        ELSE IF StartsWith(topic, "homeassistant") THEN ParseHomeassistant(topic, data)
        ELSE IF StartsWith(topic, "zwave") THEN ParseZwave(topic, data)
        ELSE IF StartsWith(topic, "baby_care_tracker") THEN ParseCustom(topic, data)
        ELSE None

\* the broker messages of the model
Messages ==
    { [topic |-> <<"zigbee2mqtt", "btn", "action">>, payload |-> Dict("action" :> "single")],
      [topic |-> <<"baby_care_tracker", "dev1", "press">>, payload |-> Scalar],
      [topic |-> <<"baby_care_tracker", "dev1", "hold">>, payload |-> Scalar],
      [topic |-> <<"other", "x">>, payload |-> Text("on")] }

(***************************************************************************)
(* Mapping resolver (device_manager.py, database.py)                       *)
(***************************************************************************)
NoMapping == [id |-> 0]

\* a row of a mapping store; the key enabled may be missing in the file
Disabled(m) == "enabled" \in DOMAIN m /\ m.enabled = FALSE

Matches(m, device_id, trigger_type) ==
    m.device_id = device_id /\ m.trigger_type = trigger_type

\* DeviceManager.get_mapping over _load_mappings(): the first row of the file
\* with this device_id and trigger_type
GetMapping(rows, device_id, trigger_type) ==
    LET hits == {i \in 1..Len(rows) : Matches(rows[i], device_id, trigger_type)}
    IN  IF hits = {} THEN NoMapping
        ELSE rows[CHOOSE i \in hits : \A j \in hits : i <= j]

\* Database.get_device_mapping: .filter(device_id, trigger_type, enabled == True).first()
GetDeviceMapping(rows, device_id, trigger_type) ==
    LET hits == {i \in 1..Len(rows) :
                    Matches(rows[i], device_id, trigger_type) /\ ~Disabled(rows[i])}
    IN  IF hits = {} THEN NoMapping
        ELSE rows[CHOOSE i \in hits : \A j \in hits : i <= j]

(***************************************************************************)
(* Event store and ingestion (database.py, main.py)                        *)
(***************************************************************************)
Callers == 1..NumCallers
ApiTypes == {"feeding_stop"}

\* the id the database gives a new row of baby_care_events (INTEGER PRIMARY
\* KEY): one more than the largest id in the table
StaleId(rows) == IF rows = <<>> THEN 1 ELSE rows[Len(rows)].id
NextId(rows) ==
    IF rows = <<>> THEN 1
    ELSE 1 + (CHOOSE m \in {rows[i].id : i \in 1..Len(rows)} :
                 \A i \in 1..Len(rows) : rows[i].id <= m)

\* whether the driver can bind trigger_data to the Text column: a dict or list
\* cannot be bound and makes the INSERT raise
Bindable(data) == data.kind # "dict"

\* the loop thread hands over the messages one at a time, in order of arrival
DeliverNewest(q) == Len(q)
DeliverNext(q) == 1

IdleHandler == [pc |-> "idle", seq |-> 0, device_id |-> <<>>, action |-> "", bindable |-> TRUE]
IdleCaller == [pc |-> "idle", etype |-> "", result |-> "none"]

\* a broker message on a subscribed topic reaches the client
Arrive ==
    \E m \in Messages :
        /\ arrived < MaxMsgs
        /\ arrived' = arrived + 1
        /\ inbox' = Append(inbox, [seq |-> arrived + 1, msg |-> m])
        /\ UNCHANGED <<events, clock, handler, callers, returned, handled>>
        /\ UNCHANGED <<connVars, mapVars, sleepVars, logVars, normVars, anVars, migVars, raceVars>>

\* the connection is lost and made again: what was in flight is lost
LinkReset ==
    /\ inbox # <<>>
    /\ inbox' = <<>>
    /\ UNCHANGED <<events, clock, arrived, handler, callers, returned, handled>>
    /\ UNCHANGED <<connVars, mapVars, sleepVars, logVars, normVars, anVars, migVars, raceVars>>

\* what became of a broker message: "ignored" (nothing parsed or no mapping),
\* "pending" (add_event under way), "stored", or "swallowed" (add_event raised
\* and on_device_event logged the error and returned normally)
Handled(item, outcome) == [seq |-> item.seq, msg |-> item.msg, outcome |-> outcome]

\* _on_message up to the call of db.add_event in on_device_event: parse the
\* message, look the mapping up, build the event
OnMessage ==
    /\ handler.pc = "idle"
    /\ inbox # <<>>
    /\ LET i == DeliverNext(inbox)
           item == inbox[i]
           info == ParseDeviceMessage(item.msg.topic, item.msg.payload)
           mapping == IF info.ok
                      THEN GetMapping(mapfile, info.device_id, info.event_type)
                      ELSE NoMapping
       IN  /\ inbox' = SubSeq(inbox, 1, i - 1) \o SubSeq(inbox, i + 1, Len(inbox))
           /\ IF mapping # NoMapping
              THEN /\ handler' = [pc |-> "add_event", seq |-> item.seq,
                                  device_id |-> info.device_id,
                                  action |-> mapping.baby_care_action,
                                  bindable |-> Bindable(info.data)]
                   /\ handled' = Append(handled, Handled(item, "pending"))
              ELSE /\ handled' = Append(handled, Handled(item, "ignored"))
                   /\ UNCHANGED handler
    /\ UNCHANGED <<events, clock, arrived, callers, returned>>
    /\ UNCHANGED <<connVars, mapVars, sleepVars, logVars, normVars, anVars, migVars, raceVars>>

\* on_device_event from session.commit() in add_event on: the INSERT gives the
\* row its id and timestamp, or raises; on_device_event catches whatever
\* add_event raises and logs it
OnDeviceEventCommit ==
    \E dbok \in BOOLEAN :
        /\ handler.pc = "add_event"
        /\ Len(events) < MaxEvents
        /\ IF dbok /\ handler.bindable
           THEN /\ events' = Append(events,
                        [id |-> NextId(events), event_type |-> handler.action,
                         timestamp |-> clock, device_source |-> handler.device_id,
                         origin |-> <<"msg", handler.seq>>])
                /\ returned' = Append(returned, NextId(events))
                /\ handled' = [handled EXCEPT ![Len(handled)].outcome = "stored"]
           ELSE /\ handled' = [handled EXCEPT ![Len(handled)].outcome = "swallowed"]
                /\ UNCHANGED <<events, returned>>
        /\ handler' = IdleHandler
        /\ UNCHANGED <<clock, inbox, arrived, callers>>
        /\ UNCHANGED <<connVars, mapVars, sleepVars, logVars, normVars, anVars, migVars, raceVars>>

\* api_add_event up to session.commit() in add_event
ApiAddEvent ==
    \E c \in Callers, t \in ApiTypes :
        /\ callers[c].pc = "idle"
        /\ callers' = [callers EXCEPT ![c] = [pc |-> "add_event", etype |-> t,
                                              result |-> "none"]]
        /\ UNCHANGED <<events, clock, inbox, arrived, handler, returned, handled>>
        /\ UNCHANGED <<connVars, mapVars, sleepVars, logVars, normVars, anVars, migVars, raceVars>>

\* api_add_event from session.commit() on: add_event returns the id, or
\* raises and the request is answered with the error
ApiCommit ==
    \E c \in Callers, dbok \in BOOLEAN :
        /\ callers[c].pc = "add_event"
        /\ Len(events) < MaxEvents
        /\ IF dbok
           THEN /\ events' = Append(events,
                        [id |-> NextId(events), event_type |-> callers[c].etype,
                         timestamp |-> clock, device_source |-> <<"manual">>,
                         origin |-> <<"api", c>>])
                /\ returned' = Append(returned, NextId(events))
                /\ callers' = [callers EXCEPT ![c] = [pc |-> "idle", etype |-> "",
                                                      result |-> "ok"]]
           ELSE /\ callers' = [callers EXCEPT ![c] = [pc |-> "idle", etype |-> "",
                                                      result |-> "error"]]
                /\ UNCHANGED <<events, returned>>
        /\ UNCHANGED <<clock, inbox, arrived, handler, handled>>
        /\ UNCHANGED <<connVars, mapVars, sleepVars, logVars, normVars, anVars, migVars, raceVars>>

\* time passes
Tick ==
    /\ clock < MaxClock
    /\ clock' = clock + 1
    /\ UNCHANGED <<events, inbox, arrived, handler, callers, returned, handled>>
    /\ UNCHANGED <<connVars, mapVars, sleepVars, logVars, normVars, anVars, migVars, raceVars>>

\* the mapping files the ingestion runs with
Row(id, device_id, trigger_type, action) ==
    [id |-> id, device_id |-> device_id, trigger_type |-> trigger_type,
     baby_care_action |-> action]

IngestMapFiles ==
    { <<Row(1, <<"custom_", "dev1">>, <<"press">>, "sleep_start"),
        Row(2, <<"zigbee2mqtt_", "btn">>, <<"action_", "single">>, "wake_up")>>,
      <<Row(1, <<"custom_", "dev1">>, <<"hold">>, "wake_up"),
        Row(2, <<"custom_", "dev1">>, <<"press">>, "sleep_start")>> }

InitStore ==
    /\ events = <<>>
    /\ clock = 0
    /\ inbox = <<>>
    /\ arrived = 0
    /\ handler = IdleHandler
    /\ callers = [c \in Callers |-> IdleCaller]
    /\ returned = <<>>
    /\ handled = <<>>

(***************************************************************************)
(* Mapping administration (device_manager.py, database.py)                 *)
(***************************************************************************)
RowE(id, device_id, trigger_type, action, enabled) ==
    [id |-> id, device_id |-> device_id, trigger_type |-> trigger_type,
     baby_care_action |-> action, enabled |-> enabled]

\* _get_virtual_devices: the devices discover_devices always returns
Discovered == {<<"virtual_button_1">>, <<"virtual_switch_1">>}
MapDevices == Discovered \cup {<<"custom_", "dev1">>}
MapTriggers == {<<"press">>}
MapActions == {"feeding_start"}

\* max([m.get('id', 0) for m in mappings], default=0) + 1
NewMappingId(rows) ==
    IF rows = <<>> THEN 1
    ELSE 1 + (CHOOSE m \in {rows[i].id : i \in 1..Len(rows)} :
                 \A i \in 1..Len(rows) : rows[i].id <= m)

\* [m for m in mappings if m.get('id') != mapping_id]
RECURSIVE WithoutId(_, _)
WithoutId(rows, id) ==
    IF rows = <<>> THEN <<>>
    ELSE IF rows[1].id = id THEN WithoutId(Tail(rows), id)
    ELSE <<rows[1]>> \o WithoutId(Tail(rows), id)

Stale == [resolved EXCEPT !.fresh = FALSE]

\* no add_mapping call has just returned
NoMapCall == [op |-> "", device_id |-> <<>>, raised |-> FALSE]

\* a lookup that finds every device
FoundAnyway(device_id) == TRUE

\* next((d for d in devices if d['id'] == device_id), None) is not None
DeviceFound(device_id) == device_id \in Discovered

\* DeviceManager.add_mapping: an unknown device raises and stores nothing
AddMapping ==
    \E d \in MapDevices, t \in MapTriggers, a \in MapActions :
        /\ Len(mapfile) < MaxMappings
        /\ NewMappingId(mapfile) <= MaxMappings + 1
        /\ Len(mapIssued) < MaxMapIssued
        /\ IF DeviceFound(d)
           THEN /\ mapfile' = Append(mapfile, Row(NewMappingId(mapfile), d, t, a))
                /\ mapIssued' = Append(mapIssued, NewMappingId(mapfile))
           ELSE UNCHANGED <<mapfile, mapIssued>>
        /\ mapCall' = [op |-> "add_mapping", device_id |-> d, raised |-> ~DeviceFound(d)]
        /\ resolved' = Stale
        /\ UNCHANGED <<dbmaps, connVars, storeVars, sleepVars, logVars, normVars, anVars, migVars, raceVars>>

\* DeviceManager.delete_mapping
DeleteMapping ==
    \E id \in 1..(MaxMappings + 1) :
        /\ mapfile' = WithoutId(mapfile, id)
        /\ resolved' = Stale
        /\ mapCall' = NoMapCall
        /\ UNCHANGED <<dbmaps, mapIssued, connVars, storeVars, sleepVars, logVars, normVars, anVars, migVars, raceVars>>

\* Database.add_device_mapping: the column default makes the row enabled
DbAddMapping ==
    \E d \in MapDevices, t \in MapTriggers, a \in MapActions :
        /\ Len(dbmaps) < MaxMappings
        /\ NewMappingId(dbmaps) <= MaxMappings + 1
        /\ dbmaps' = Append(dbmaps, RowE(NewMappingId(dbmaps), d, t, a, TRUE))
        /\ resolved' = Stale
        /\ mapCall' = NoMapCall
        /\ UNCHANGED <<mapfile, mapIssued, connVars, storeVars, sleepVars, logVars, normVars, anVars, migVars, raceVars>>

\* Database.delete_device_mapping
DbDeleteMapping ==
    \E id \in 1..(MaxMappings + 1) :
        /\ dbmaps' = WithoutId(dbmaps, id)
        /\ resolved' = Stale
        /\ mapCall' = NoMapCall
        /\ UNCHANGED <<mapfile, mapIssued, connVars, storeVars, sleepVars, logVars, normVars, anVars, migVars, raceVars>>

\* one resolution of (device_id, trigger_type) by each resolver
Resolve ==
    \E d \in MapDevices, t \in MapTriggers :
        /\ resolved' = [device_id |-> d, trigger_type |-> t, fresh |-> TRUE,
                        file |-> GetMapping(mapfile, d, t),
                        db |-> GetDeviceMapping(dbmaps, d, t)]
        /\ mapCall' = NoMapCall
        /\ UNCHANGED <<mapfile, dbmaps, mapIssued, connVars, storeVars, sleepVars, logVars, normVars, anVars, migVars, raceVars>>

\* the mapping rows found in storage when the program starts
StoredMappings ==
    { <<>>,
      <<RowE(1, <<"custom_", "dev1">>, <<"press">>, "sleep_start", TRUE)>>,
      <<RowE(1, <<"custom_", "dev1">>, <<"press">>, "sleep_start", FALSE)>>,
      <<RowE(1, <<"custom_", "dev1">>, <<"press">>, "sleep_start", FALSE),
        RowE(2, <<"custom_", "dev1">>, <<"press">>, "wake_up", TRUE)>> }

NotResolved ==
    [device_id |-> <<>>, trigger_type |-> <<>>, fresh |-> FALSE,
     file |-> NoMapping, db |-> NoMapping]

(***************************************************************************)
(* Sleep-session reconstruction (analytics.py)                             *)
(* A timestamp is [day, hour, micro]; micro is 0 or half a second.         *)
(* Durations are counted in half seconds.                                  *)
(***************************************************************************)
HalfSecondsPerHour == 7200

Days == {1, 2}
Hours == {9, 10}
Micros == {0, 5}
Times == [day : Days, hour : Hours, micro : Micros]
SleepTypes == {"sleep_start", "wake_up"}
SleepEvent == [event_type : SleepTypes, timestamp : Times]

\* the point in time of a timestamp, in half seconds
Ticks(t) == (t.day * 24 + t.hour) * HalfSecondsPerHour + (IF t.micro = 0 THEN 0 ELSE 1)

\* datetime.isoformat(): the digits of the date and the time, and the
\* fraction only when the microseconds are not 0
Isoformat(t) ==
    <<t.day, t.hour \div 10, t.hour % 10>> \o (IF t.micro = 0 THEN <<>> ELSE <<t.micro>>)

\* datetime.fromisoformat()
FromIsoformat(str) ==
    [day |-> str[1], hour |-> str[2] * 10 + str[3],
     micro |-> IF Len(str) > 3 THEN str[4] ELSE 0]

\* a < b on strings
RECURSIVE StrLess(_, _)
StrLess(a, b) ==
    IF b = <<>> THEN FALSE
    ELSE IF a = <<>> THEN TRUE
    ELSE IF a[1] # b[1] THEN a[1] < b[1]
    ELSE StrLess(Tail(a), Tail(b))

\* _event_to_dict: the event as the analytics receive it
EventDict(e) == [event_type |-> e.event_type, timestamp |-> Isoformat(e.timestamp)]

\* sorted(sleep_events, key=lambda x: x['timestamp']): stable, by the string
RECURSIVE InsertSorted(_, _)
InsertSorted(sorted, e) ==
    IF sorted = <<>> THEN <<e>>
    ELSE IF StrLess(e.timestamp, sorted[1].timestamp) THEN <<e>> \o sorted
    ELSE <<sorted[1]>> \o InsertSorted(Tail(sorted), e)

RECURSIVE SortByTimestamp(_)
Unsorted(evs) == evs
SortByTimestamp(evs) ==
    IF evs = <<>> THEN <<>>
    ELSE InsertSorted(SortByTimestamp(SubSeq(evs, 1, Len(evs) - 1)), evs[Len(evs)])

\* a classification that takes only an evening start for a night
IsNightSleepEvening(start_time, end_time) ==
    /\ start_time.hour >= 18
    /\ (end_time.hour >= 5 /\ end_time.hour <= 10)

\* _is_night_sleep
IsNightSleep(start_time, end_time) ==
    /\ (start_time.hour >= 18 \/ start_time.hour <= 2)
    /\ (end_time.hour >= 5 /\ end_time.hour <= 10)

NoStart == [day |-> 0, hour |-> 0, micro |-> 0]

\* a scan in which an open sleep_start is kept when another sleep_start comes
RECURSIVE ScanSleepKeepFirst(_, _, _)
ScanSleepKeepFirst(sorted, current_sleep_start, acc) ==
    IF sorted = <<>> THEN acc
    ELSE LET event == sorted[1]
         IN  IF event.event_type = "sleep_start"
             THEN ScanSleepKeepFirst(Tail(sorted),
                    IF current_sleep_start = [day |-> 0, hour |-> 0, micro |-> 0]
                    THEN FromIsoformat(event.timestamp) ELSE current_sleep_start, acc)
             ELSE IF current_sleep_start # [day |-> 0, hour |-> 0, micro |-> 0]
             THEN ScanSleepKeepFirst(Tail(sorted), [day |-> 0, hour |-> 0, micro |-> 0],
                    Append(acc,
                      [start_time |-> Isoformat(current_sleep_start),
                       end_time |-> event.timestamp,
                       duration |-> Ticks(FromIsoformat(event.timestamp)) - Ticks(current_sleep_start),
                       start_hour |-> current_sleep_start.hour,
                       is_night_sleep |-> IsNightSleep(current_sleep_start,
                                                       FromIsoformat(event.timestamp))]))
             ELSE ScanSleepKeepFirst(Tail(sorted), current_sleep_start, acc)

\* the loop of _calculate_sleep_sessions over the sorted events
RECURSIVE ScanSleep(_, _, _)
ScanSleep(sorted, current_sleep_start, acc) ==
    IF sorted = <<>> THEN acc
    ELSE LET event == sorted[1]
         IN  IF event.event_type = "sleep_start"
             THEN ScanSleep(Tail(sorted), FromIsoformat(event.timestamp), acc)
             ELSE IF event.event_type = "wake_up" /\ current_sleep_start # NoStart
             THEN LET wake_time == FromIsoformat(event.timestamp)
                  IN  ScanSleep(Tail(sorted), NoStart,
                        Append(acc,
                          [start_time |-> Isoformat(current_sleep_start),
                           end_time |-> Isoformat(wake_time),
                           duration |-> Ticks(wake_time) - Ticks(current_sleep_start),
                           start_hour |-> current_sleep_start.hour,
                           is_night_sleep |-> IsNightSleep(current_sleep_start, wake_time)]))
             ELSE ScanSleep(Tail(sorted), current_sleep_start, acc)

CalculateSleepSessions(evs) == ScanSleep(SortByTimestamp(evs), NoStart, <<>>)

RECURSIVE SumDurations(_)
SumDurations(ss) == IF ss = <<>> THEN 0 ELSE ss[1].duration + SumDurations(Tail(ss))

\* _calculate_sleep_duration: the total over the sessions (here in half seconds)
CalculateSleepDuration(evs) == SumDurations(CalculateSleepSessions(evs))

RECURSIVE SeqsUpTo(_, _)
SeqsUpTo(S, n) ==
    IF n = 0 THEN {<<>>}
    ELSE LET shorter == SeqsUpTo(S, n - 1)
         IN  shorter \cup {Append(q, x) : q \in shorter, x \in S}

\* the analytics are handed events in the form _event_to_dict gives them
RECURSIVE MapEventDict(_)
MapEventDict(evs) ==
    IF evs = <<>> THEN <<>> ELSE <<EventDict(evs[1])>> \o MapEventDict(Tail(evs))

\* the orders in which the store may hand over the same events: events that
\* share a timestamp may change places
TieOrders(evs) ==
    { [i \in 1..Len(evs) |-> evs[f[i]]] :
        f \in { g \in [1..Len(evs) -> 1..Len(evs)] :
                  /\ \A i, j \in 1..Len(evs) : i # j => g[i] # g[j]
                  /\ \A i \in 1..Len(evs) : evs[g[i]].timestamp = evs[i].timestamp } }

RunSleepSessions ==
    /\ ~sleepDone
    /\ sessions' = CalculateSleepSessions(MapEventDict(sleep_events))
    /\ sleepDone' = TRUE
    /\ UNCHANGED <<sleep_events, connVars, mapVars, storeVars, logVars, normVars, anVars, migVars, raceVars>>

IdleSleep ==
    /\ sleep_events = <<>>
    /\ sessions = <<>>
    /\ sleepDone = FALSE

(***************************************************************************)
(* The event table: append, delete, cleanup, query (database.py)           *)
(***************************************************************************)
LogTypes == {"sleep_start", "wake_up"}
NoType == ""      \* event_type=None (or any falsy value)
NoDate == -1      \* start_date=None, end_date=None

NoDuration == -1  \* duration=None

\* no cleanup_old_data or update_event has just returned
NoOp == [op |-> "", event_id |-> 0, returns |-> FALSE, count |-> 0, ok |-> FALSE]

NoAnswer ==
    [fresh |-> FALSE, caller |-> 0, event_type |-> NoType, start_date |-> NoDate,
     end_date |-> NoDate, limit |-> 0, offset |-> 0, result |-> <<>>]

\* session.add(event); session.commit()
InsertLost(rows, row) == rows
Inserted(rows, row) == Append(rows, row)

\* Database.add_event: the row gets the next id and the current time, and
\* the id is returned after the commit
AddEvent ==
    \E c \in Callers, t \in LogTypes :
        /\ Len(log) < MaxRows
        /\ Len(issued) < MaxIssued
        /\ log' = Inserted(log, [id |-> NextId(log), event_type |-> t,
                                 timestamp |-> now, duration |-> NoDuration,
                                 notes |-> "", device_source |-> "", trigger_data |-> "",
                                 created_at |-> now, updated_at |-> now,
                                 seq |-> Len(issued) + 1])
        /\ issued' = Append(issued, [id |-> NextId(log), caller |-> c, event_type |-> t,
                                     timestamp |-> now, gone |-> FALSE])
        /\ answer' = NoAnswer
        /\ opres' = NoOp
        /\ UNCHANGED <<now, connVars, mapVars, storeVars, sleepVars, normVars, anVars, migVars, raceVars>>

\* history: of an appended event that is no longer among the rows only the
\* id is kept
Gone(hist, rows) ==
    [i \in 1..Len(hist) |->
        IF \E k \in 1..Len(rows) : rows[k].seq = i THEN hist[i]
        ELSE [id |-> hist[i].id, caller |-> 0, event_type |-> NoType,
              timestamp |-> 0, gone |-> TRUE]]

\* Database.delete_event
DeleteEvent ==
    \E id \in 1..(MaxRows + 1) :
        /\ log' = SelectSeq(log, LAMBDA r : r.id # id)
        /\ issued' = Gone(issued, log')
        /\ answer' = NoAnswer
        /\ opres' = NoOp
        /\ UNCHANGED <<now, connVars, mapVars, storeVars, sleepVars, normVars, anVars, migVars, raceVars>>

\* Database.cleanup_old_data: delete where timestamp < utcnow() - days; the
\* number of deleted rows is logged and the function returns nothing
CleanupOldData ==
    /\ log' = SelectSeq(log, LAMBDA r : ~(r.timestamp < now - CleanupDays))
    /\ issued' = Gone(issued, log')
    /\ answer' = NoAnswer
    /\ opres' = [op |-> "cleanup_old_data", event_id |-> 0, returns |-> FALSE,
                 count |-> 0, ok |-> FALSE]
    /\ UNCHANGED <<now, connVars, mapVars, storeVars, sleepVars, normVars, anVars, migVars, raceVars>>

\* time passes
Advance ==
    /\ now < MaxNow
    /\ now' = now + 1
    /\ answer' = NoAnswer
    /\ opres' = NoOp
    /\ UNCHANGED <<log, issued, connVars, mapVars, storeVars, sleepVars, normVars, anVars, migVars, raceVars>>

\* the filters of get_events; a filter is applied only when its argument is truthy
Filtered(rows, event_type, start_date, end_date) ==
    {rows[i] : i \in {j \in 1..Len(rows) :
        /\ (event_type # NoType => rows[j].event_type = event_type)
        /\ (start_date # NoDate => rows[j].timestamp >= start_date)
        /\ (end_date # NoDate => rows[j].timestamp <= end_date)}}

\* ORDER BY timestamp DESC: every order of the rows with no later row after
\* an earlier one; rows of equal timestamp come in any order
RECURSIVE AscOrders(_)
AscOrders(S) ==
    IF S = {} THEN {<<>>}
    ELSE UNION {{<<r>> \o q : q \in AscOrders(S \ {r})} :
                  r \in {x \in S : \A y \in S : x.timestamp <= y.timestamp}}

RECURSIVE DescOrders(_)
DescOrders(S) ==
    IF S = {} THEN {<<>>}
    ELSE UNION {{<<r>> \o q : q \in DescOrders(S \ {r})} :
                  r \in {x \in S : \A y \in S : y.timestamp <= x.timestamp}}

\* .offset(offset).limit(limit)
Window(q, offset, limit) == SubSeq(q, offset + 1, Min(Len(q), offset + limit))

\* Database.get_events; a query changes nothing, so one query is taken
\* between two changes of the table
GetEvents ==
    /\ ~answer.fresh
    /\ \E c \in Callers, t \in LogTypes \cup {NoType},
       sd \in {NoDate, 1}, ed \in {NoDate, 1},
       limit \in 0..MaxLimit, offset \in 0..MaxOffset :
        \E q \in DescOrders(Filtered(log, t, sd, ed)) :
            /\ answer' = [fresh |-> TRUE, caller |-> c, event_type |-> t,
                          start_date |-> sd, end_date |-> ed, limit |-> limit,
                          offset |-> offset, result |-> Window(q, offset, limit)]
            /\ opres' = NoOp
            /\ UNCHANGED <<log, issued, now, connVars, mapVars, storeVars, sleepVars, normVars, anVars, migVars, raceVars>>

\* the arguments of update_event in the model: one keyword at a time
UpdateKeys == {"notes", "duration", "event_type", "timestamp", "no_such_attribute"}

UpdateValues(key) ==
    IF key = "notes" THEN {"changed"}
    ELSE IF key = "duration" THEN {5}
    ELSE IF key = "event_type" THEN LogTypes
    ELSE IF key = "timestamp" THEN {0}
    ELSE {0}

\* hasattr(event, key): the columns of BabyCareEvent
HasAttr(key) ==
    key \in {"id", "event_type", "timestamp", "duration", "notes", "device_source",
             "trigger_data", "created_at", "updated_at"}

\* setattr(event, key, value)
SetAttr(row, key, value) == [row EXCEPT ![key] = value]

\* Database.update_event(event_id, **kwargs)
UpdateEvent ==
    \E event_id \in 1..(MaxRows + 1), key \in UpdateKeys :
      \E value \in UpdateValues(key) :
        /\ IF \E i \in 1..Len(log) : log[i].id = event_id
           THEN /\ log' = [i \in 1..Len(log) |->
                             IF log[i].id = event_id
                             THEN [(IF HasAttr(key) THEN SetAttr(log[i], key, value)
                                    ELSE log[i]) EXCEPT !.updated_at = now]
                             ELSE log[i]]
                /\ opres' = [op |-> "update_event", event_id |-> event_id,
                             returns |-> TRUE, count |-> 0, ok |-> TRUE]
           ELSE /\ log' = log
                /\ opres' = [op |-> "update_event", event_id |-> event_id,
                             returns |-> TRUE, count |-> 0, ok |-> FALSE]
        /\ answer' = NoAnswer
        /\ UNCHANGED <<issued, now, connVars, mapVars, storeVars, sleepVars, normVars, anVars, migVars, raceVars>>

IdleLog ==
    /\ log = <<>>
    /\ issued = <<>>
    /\ now = 0
    /\ answer = NoAnswer
    /\ opres = NoOp

(***************************************************************************)
(* The message handler on its own (mqtt_client.py)                         *)
(***************************************************************************)
\* a payload that is not valid UTF-8: msg.payload.decode raises
Undecodable == [kind |-> "bytes", f |-> NoFields, text |-> ""]

NormTopics ==
    { <<"zigbee2mqtt", "btn", "action">>, <<"zigbee2mqtt", "btn">>,
      <<"zigbee2mqtt", "btn", "availability">>,
      <<"homeassistant", "switch", "nursery", "state">>,
      <<"homeassistant", "light", "nursery", "state">>,
      <<"zwave", "node2", "action">>,
      <<"baby_care_tracker", "dev1", "press">>,
      <<"other", "x">> }

NormPayloads ==
    { Dict("action" :> "single"), Dict("state" :> "ON"),
      Dict(("action" :> "single") @@ ("state" :> "ON")),
      Dict(("state" :> "ON") @@ ("contact" :> "true") @@ ("occupancy" :> "true")),
      Dict(("contact" :> "true") @@ ("occupancy" :> "false")),
      Dict("occupancy" :> "true"), Dict("value" :> "7"),
      Dict("action" :> ""), Dict("battery" :> "90"),
      Scalar, Text("on"), Undecodable }

NoMessage == [topic |-> <<>>, payload |-> Scalar]

\* except Exception as e: logger.error(...) -- nothing is raised again
Uncaught(raised) == raised
Escapes(raised) == FALSE

\* the network thread calls _on_message with a message
Deliver ==
    \E t \in NormTopics, p \in NormPayloads :
        /\ nmsg = NoMessage
        /\ Len(nlog) < MaxHandled
        /\ nmsg' = [topic |-> t, payload |-> p]
        /\ UNCHANGED <<nlog, escaped, connVars, mapVars, storeVars, sleepVars, logVars, anVars, migVars, raceVars>>

\* MQTTClient._on_message: decode, parse, call the callback when the parse
\* gave a device_info; the callback may raise
HandleMessage ==
    \E cbRaises \in BOOLEAN :
        LET decodeFails == nmsg.payload.kind = "bytes"
            device_info == IF decodeFails THEN None
                           ELSE ParseDeviceMessage(nmsg.topic, nmsg.payload)
            raised == decodeFails \/ (device_info.ok /\ cbRaises)
        IN  /\ nmsg # NoMessage
            /\ (cbRaises => device_info.ok)
            /\ nlog' = Append(nlog, [topic |-> nmsg.topic, payload |-> nmsg.payload,
                                     device_info |-> device_info,
                                     called |-> device_info.ok,
                                     raised |-> raised,
                                     connected |-> connected])
            /\ escaped' = (escaped \/ Escapes(raised))
            /\ nmsg' = NoMessage
            /\ UNCHANGED <<connVars, mapVars, storeVars, sleepVars, logVars, anVars, migVars, raceVars>>

IdleNorm ==
    /\ nmsg = NoMessage
    /\ nlog = <<>>
    /\ escaped = FALSE

(***************************************************************************)
(* Analytics over the stored events (analytics.py)                         *)
(* Hours are counted in half seconds, rounded hours in tenths of an hour.  *)
(***************************************************************************)
FeedingTypes == {"feeding_start_left", "feeding_start_right"}
DiaperTypes == {"diaper_pee", "diaper_poo", "diaper_both"}

\* 'feeding' in event['event_type'], 'diaper' in event['event_type']
IsFeeding(event_type) == event_type \in FeedingTypes
IsDiaper(event_type) == event_type \in DiaperTypes

NoEvent == [event_type |-> "", timestamp |-> <<>>]     \* None
EmptyResult == [op |-> "", empty |-> TRUE]             \* {}
NoResult == [op |-> "", empty |-> FALSE]               \* nothing returned yet

\* round(x, 1) of x = num / den hours: tenths of an hour, ties to even
Round1(num, den) ==
    LET q == (10 * num) \div den
        r == (10 * num) % den
    IN  IF 2 * r < den THEN q
        ELSE IF 2 * r > den THEN q + 1
        ELSE IF q % 2 = 0 THEN q ELSE q + 1

\* ORDER BY timestamp DESC over the rows in insertion order
RECURSIVE InsertDesc(_, _)
InsertDesc(sorted, e) ==
    IF sorted = <<>> THEN <<e>>
    ELSE IF Ticks(e.timestamp) > Ticks(sorted[1].timestamp) THEN <<e>> \o sorted
    ELSE <<sorted[1]>> \o InsertDesc(Tail(sorted), e)

RECURSIVE OrderByTimestampDesc(_)
OrderByTimestampDesc(rows) ==
    IF rows = <<>> THEN <<>>
    ELSE InsertDesc(OrderByTimestampDesc(SubSeq(rows, 1, Len(rows) - 1)), rows[Len(rows)])

FirstN(seq, n) == SubSeq(seq, 1, IF Len(seq) < n THEN Len(seq) ELSE n)

\* Database.get_recent_events(limit), as the analytics receive it
GetRecentEvents(rows, limit) == MapEventDict(FirstN(OrderByTimestampDesc(rows), limit))

\* the rows of the range, newest first, in the orders ties allow
RangeOrders(rows, start_date, end_date) ==
    TieOrders(OrderByTimestampDesc(
        SelectSeq(rows, LAMBDA e : /\ Ticks(e.timestamp) >= Ticks(start_date)
                                   /\ Ticks(e.timestamp) <= Ticks(end_date))))

\* Database.get_events_by_date_range(start_date, end_date) is
\* get_events(start_date=..., end_date=..., limit=1000): the orders in which
\* the rows of the range may come back, cut by .limit()
GetEventsByDateRange(rows, start_date, end_date) ==
    {FirstN(q, RangeLimit) : q \in RangeOrders(rows, start_date, end_date)}

\* ---- live status ----
LiveLimit == 5
LiveTypes == {"feeding_start_left", "diaper_pee", "sleep_start", "wake_up"}

\* max(events, key=lambda x: x['timestamp']): the first of the greatest
RECURSIVE MaxByTimestamp(_)
MaxByTimestamp(evs) ==
    IF Len(evs) = 1 THEN evs[1]
    ELSE LET rest == MaxByTimestamp(SubSeq(evs, 1, Len(evs) - 1))
         IN  IF StrLess(rest.timestamp, evs[Len(evs)].timestamp) THEN evs[Len(evs)] ELSE rest

\* _get_current_sleep_status
GetCurrentSleepStatus(evs) ==
    IF evs = <<>> THEN "unknown"
    ELSE IF MaxByTimestamp(evs).event_type = "sleep_start" THEN "sleeping" ELSE "awake"

\* current_sleep_status = 'awake' before the loop of get_live_stats
InitialSleepStatus == "awake"

\* the loop of get_live_stats over the recent events, newest first
RECURSIVE ScanRecent(_, _, _, _)
ScanRecent(recent, last_feeding, last_diaper, current_sleep_status) ==
    IF recent = <<>>
    THEN [sleep_status |-> current_sleep_status,
          last_feeding |-> last_feeding, last_diaper |-> last_diaper]
    ELSE LET event == recent[1]
         IN  IF IsFeeding(event.event_type) /\ last_feeding = NoEvent
             THEN ScanRecent(Tail(recent), event, last_diaper, current_sleep_status)
             ELSE IF IsDiaper(event.event_type) /\ last_diaper = NoEvent
             THEN ScanRecent(Tail(recent), last_feeding, event, current_sleep_status)
             ELSE IF event.event_type = "sleep_start"
             THEN [sleep_status |-> "sleeping",
                   last_feeding |-> last_feeding, last_diaper |-> last_diaper]
             ELSE IF event.event_type = "wake_up"
             THEN [sleep_status |-> "awake",
                   last_feeding |-> last_feeding, last_diaper |-> last_diaper]
             ELSE ScanRecent(Tail(recent), last_feeding, last_diaper, current_sleep_status)

\* Analytics.get_live_stats; every stored event is of today
GetLiveStats ==
    /\ ~an_done
    /\ LET all == MapEventDict(OrderByTimestampDesc(an_events))
           sleep == SelectSeq(all, LAMBDA e : e.event_type \in {"sleep_start", "wake_up"})
           current == ScanRecent(GetRecentEvents(an_events, LiveLimit),
                                 NoEvent, NoEvent, InitialSleepStatus)
       IN  an_result' = [op |-> "get_live_stats", empty |-> FALSE,
                         today_sleep_status |-> GetCurrentSleepStatus(sleep),
                         sleep_status |-> current.sleep_status,
                         last_feeding |-> current.last_feeding,
                         last_diaper |-> current.last_diaper]
    /\ an_done' = TRUE
    /\ UNCHANGED <<an_events, an_days, an_sessions>>
    /\ UNCHANGED <<connVars, mapVars, storeVars, sleepVars, logVars, normVars, migVars, raceVars>>

\* ---- sleep analytics ----
AnalyticsNow == [day |-> 4, hour |-> 0, micro |-> 0]      \* datetime.now()

\* end_date - timedelta(days=days)
DaysBefore(t, days) == [day |-> t.day - days, hour |-> t.hour, micro |-> t.micro]

\* a caller of get_events_by_date_range over the last an_days days
QueryRange ==
    /\ ~an_done
    /\ \E evs \in GetEventsByDateRange(an_events, DaysBefore(AnalyticsNow, an_days),
                                          AnalyticsNow) :
         an_result' = [op |-> "get_events_by_date_range", empty |-> FALSE, events |-> evs]
    /\ an_done' = TRUE
    /\ UNCHANGED <<an_events, an_days, an_sessions>>
    /\ UNCHANGED <<connVars, mapVars, storeVars, sleepVars, logVars, normVars, migVars, raceVars>>

\* ---- weekly statistics ----
\* datetime.fromisoformat(event['timestamp']).date()
EventDate(e) == FromIsoformat(e.timestamp).day

\* the keys of daily_data
Dates(evs) == {EventDate(evs[i]) : i \in 1..Len(evs)}

\* daily_data[date]: the events of the day, in the order they came
DayEvents(evs, date) == SelectSeq(evs, LAMBDA e : EventDate(e) = date)

SleepEvents(evs) == SelectSeq(evs, LAMBDA e : e.event_type \in {"sleep_start", "wake_up"})

\* the entries of daily_breakdown; sleep_duration is the value before
\* round(sleep_duration / 60, 1), in half seconds
DailyBreakdown(evs) ==
    [date \in Dates(evs) |->
        LET day_events == DayEvents(evs, date)
            sleep_duration == CalculateSleepDuration(SleepEvents(day_events))
        IN  [feedings |-> Len(SelectSeq(day_events, LAMBDA e : IsFeeding(e.event_type))),
             diapers |-> Len(SelectSeq(day_events, LAMBDA e : IsDiaper(e.event_type))),
             sleep_duration |-> sleep_duration,
             sleep_hours |-> Round1(sleep_duration, HalfSecondsPerHour)]]

\* Analytics.get_weekly_stats(weeks_back), an_days = 7 * weeks_back
GetWeeklyStats ==
    /\ ~an_done
    /\ \E q \in GetEventsByDateRange(an_events, DaysBefore(AnalyticsNow, an_days),
                                        AnalyticsNow) :
         LET evs == MapEventDict(q)
         IN  an_result' =
                 [op |-> "get_weekly_stats", empty |-> FALSE,
                  total_feedings |-> Len(SelectSeq(evs, LAMBDA e : IsFeeding(e.event_type))),
                  total_diapers |-> Len(SelectSeq(evs, LAMBDA e : IsDiaper(e.event_type))),
                  daily_breakdown |-> DailyBreakdown(evs)]
    /\ an_done' = TRUE
    /\ UNCHANGED <<an_events, an_days, an_sessions>>
    /\ UNCHANGED <<connVars, mapVars, storeVars, sleepVars, logVars, normVars, migVars, raceVars>>

\* _analyze_night_vs_day_sleep
RECURSIVE SumWhere(_, _)
SumWhere(ss, night) ==
    IF ss = <<>> THEN 0
    ELSE (IF ss[1].is_night_sleep = night THEN ss[1].duration ELSE 0)
         + SumWhere(Tail(ss), night)

AnalyzeNightVsDaySleep(ss) == <<SumWhere(ss, TRUE), SumWhere(ss, FALSE)>>

RECURSIVE MaxSeq(_)
MaxSeq(q) ==
    IF Len(q) = 1 THEN q[1]
    ELSE LET m == MaxSeq(Tail(q)) IN IF q[1] > m THEN q[1] ELSE m

RECURSIVE MinSeq(_)
MinSeq(q) ==
    IF Len(q) = 1 THEN q[1]
    ELSE LET m == MinSeq(Tail(q)) IN IF q[1] < m THEN q[1] ELSE m

Durations(ss) == [k \in 1..Len(ss) |-> ss[k].duration]

\* the dictionary get_sleep_analytics returns when nothing raises
SleepAnalytics(sleep_sessions, days) ==
    LET total_sleep_hours == SumDurations(sleep_sessions)
        night_day == AnalyzeNightVsDaySleep(sleep_sessions)
    IN  [op |-> "get_sleep_analytics", empty |-> FALSE,
         total_sleep_sessions |-> Len(sleep_sessions),
         total_sleep_hours |-> Round1(total_sleep_hours, HalfSecondsPerHour),
         daily_sleep_average |-> Round1(total_sleep_hours, HalfSecondsPerHour * days),
         average_session_duration |->
             IF sleep_sessions = <<>> THEN 0
             ELSE Round1(total_sleep_hours, HalfSecondsPerHour * Len(sleep_sessions)),
         longest_sleep_session |->
             IF sleep_sessions = <<>> THEN 0 ELSE MaxSeq(Durations(sleep_sessions)),
         shortest_sleep_session |->
             IF sleep_sessions = <<>> THEN 0 ELSE MinSeq(Durations(sleep_sessions)),
         night_sleep_hours |-> Round1(night_day[1], HalfSecondsPerHour),
         day_sleep_hours |-> Round1(night_day[2], HalfSecondsPerHour)]

\* Analytics.get_sleep_analytics(days): total_sleep_hours / days raises
\* ZeroDivisionError for days = 0, and the except branch returns {}
GetSleepAnalytics ==
    /\ ~an_done
    /\ \E evs \in GetEventsByDateRange(an_events, DaysBefore(AnalyticsNow, an_days),
                                          AnalyticsNow) :
         LET sleep_sessions ==
                 CalculateSleepSessions(
                     SelectSeq(MapEventDict(evs),
                               LAMBDA e : e.event_type \in {"sleep_start", "wake_up"}))
         IN  /\ an_sessions' = sleep_sessions
             /\ an_result' = IF an_days = 0 THEN EmptyResult
                             ELSE SleepAnalytics(sleep_sessions, an_days)
    /\ an_done' = TRUE
    /\ UNCHANGED <<an_events, an_days>>
    /\ UNCHANGED <<connVars, mapVars, storeVars, sleepVars, logVars, normVars, migVars, raceVars>>

\* ---- intervals between feedings and between diaper changes ----
RECURSIVE Differences(_)
Differences(sorted) ==
    IF Len(sorted) < 2 THEN <<>>
    ELSE <<Ticks(FromIsoformat(sorted[2].timestamp)) - Ticks(FromIsoformat(sorted[1].timestamp))>>
         \o Differences(Tail(sorted))

\* _calculate_feeding_intervals, _calculate_diaper_intervals
CalculateIntervalsUnsorted(evs) ==
    IF Len(evs) < 2 THEN <<>> ELSE Differences(Unsorted(evs))
CalculateIntervals(evs) ==
    IF Len(evs) < 2 THEN <<>> ELSE Differences(SortByTimestamp(evs))

RECURSIVE SumSeq(_)
SumSeq(q) == IF q = <<>> THEN 0 ELSE q[1] + SumSeq(Tail(q))

\* the interval figures of get_diaper_analytics over the diaper events
\* (get_feeding_analytics reports shortest and longest without rounding)
IntervalStats ==
    /\ ~an_done
    /\ LET intervals == CalculateIntervals(MapEventDict(an_events))
       IN  an_result' =
             [op |-> "intervals", empty |-> FALSE,
              intervals |-> intervals,
              average_interval_hours |->
                  IF intervals = <<>> THEN 0
                  ELSE Round1(SumSeq(intervals), HalfSecondsPerHour * Len(intervals)),
              shortest_interval |->
                  IF intervals = <<>> THEN 0 ELSE Round1(MinSeq(intervals), HalfSecondsPerHour),
              longest_interval |->
                  IF intervals = <<>> THEN 0 ELSE Round1(MaxSeq(intervals), HalfSecondsPerHour)]
    /\ an_done' = TRUE
    /\ UNCHANGED <<an_events, an_days, an_sessions>>
    /\ UNCHANGED <<connVars, mapVars, storeVars, sleepVars, logVars, normVars, migVars, raceVars>>

IdleAn ==
    /\ an_events = <<>>
    /\ an_days = 0
    /\ an_sessions = <<>>
    /\ an_result = NoResult
    /\ an_done = FALSE

(***************************************************************************)
(* Schema migrations at startup (migrations.py)                            *)
(* A version "a.b.c" is the tuple <<a, b, c>> of its numbers.              *)
(***************************************************************************)
\* _get_migrations: the versions that have a migration, in ascending order
AllVersions == << <<1, 0, 0>>, <<1, 0, 1>>, <<1, 0, 2>>, <<1, 0, 3>>, <<1, 0, 4>> >>

\* APP_VERSION
APP_VERSION == <<1, 0, 10>>

\* tuple(map(int, v.split('.'))) compared as tuples
RECURSIVE TupleLess(_, _)
TupleLess(a, b) ==
    IF b = <<>> THEN FALSE
    ELSE IF a = <<>> THEN TRUE
    ELSE IF a[1] # b[1] THEN a[1] < b[1]
    ELSE TupleLess(Tail(a), Tail(b))

\* _version_compare
VersionCompare(v1, v2) == IF TupleLess(v1, v2) THEN -1 ELSE IF TupleLess(v2, v1) THEN 1 ELSE 0

\* get_current_version: the newest row of schema_version, '1.0.0' without one
GetCurrentVersion(rows) == IF rows = <<>> THEN <<1, 0, 0>> ELSE rows[Len(rows)]

\* all_versions.index(v), counted from 0; -1 stands for "not in the list"
IndexOf(v) ==
    IF \E i \in 1..Len(AllVersions) : AllVersions[i] = v
    THEN (CHOOSE i \in 1..Len(AllVersions) : AllVersions[i] = v) - 1
    ELSE -1

\* _get_migration_path: all_versions.index(target) raises ValueError for a
\* target that has no migration
GetMigrationPath(current, target) ==
    IF IndexOf(target) = -1
    THEN [raised |-> TRUE, path |-> <<>>]
    ELSE [raised |-> FALSE,
          path |-> SubSeq(AllVersions, IndexOf(current) + 2, IndexOf(target) + 1)]

NoRun == [ran |-> FALSE, before |-> <<>>, applied |-> <<>>, raised |-> FALSE]

\* run_migrations(db_path, target_version) with MigrationManager.migrate:
\* every migration of the path is run and its version recorded
RunMigrations ==
    /\ mig_runs < MaxRuns
    /\ mig_runs' = mig_runs + 1
    /\ IF ~db_exists
       THEN /\ mig_last' = NoRun
            /\ UNCHANGED schema_version
       ELSE LET current_version == GetCurrentVersion(schema_version)
            IN  IF ~(VersionCompare(current_version, mig_target) < 0)
                THEN /\ mig_last' = [ran |-> TRUE, before |-> current_version,
                                     applied |-> <<>>, raised |-> FALSE]
                     /\ UNCHANGED schema_version
                ELSE LET migration_path == GetMigrationPath(current_version, mig_target)
                     IN  /\ schema_version' = schema_version \o migration_path.path
                         /\ mig_last' = [ran |-> TRUE, before |-> current_version,
                                         applied |-> migration_path.path,
                                         raised |-> migration_path.raised]
    /\ UNCHANGED <<db_exists, mig_target>>
    /\ UNCHANGED <<connVars, mapVars, storeVars, sleepVars, logVars, normVars, anVars, raceVars>>

IdleMig ==
    /\ db_exists = FALSE
    /\ schema_version = <<>>
    /\ mig_target = <<>>
    /\ mig_last = NoRun
    /\ mig_runs = 0

\* ---- the sleep statistics of the store (database.py) ----
\* .order_by(BabyCareEvent.timestamp): oldest first
OrderByTimestamp(rows) ==
    LET desc == OrderByTimestampDesc(rows)
    IN  [i \in 1..Len(desc) |-> desc[Len(desc) + 1 - i]]

\* the loop of get_sleep_stats over the rows: the durations of the sessions
RECURSIVE StatsScan(_, _, _)
StatsScan(rows, current_sleep_start, sleep_sessions) ==
    IF rows = <<>> THEN sleep_sessions
    ELSE LET event == rows[1]
         IN  IF event.event_type = "sleep_start"
             THEN StatsScan(Tail(rows), event.timestamp, sleep_sessions)
             ELSE IF event.event_type = "wake_up" /\ current_sleep_start # NoStart
             THEN StatsScan(Tail(rows), NoStart,
                    Append(sleep_sessions,
                           Ticks(event.timestamp) - Ticks(current_sleep_start)))
             ELSE StatsScan(Tail(rows), current_sleep_start, sleep_sessions)

\* Database.get_sleep_stats(days), days = an_days > 0; total_sleep_time is
\* the value before rounding, in half seconds
GetSleepStats ==
    /\ an_result = NoResult
    /\ an_days > 0
    /\ \E q \in TieOrders(OrderByTimestamp(
                    SelectSeq(an_events,
                              LAMBDA e : /\ e.event_type \in {"sleep_start", "wake_up"}
                                         /\ Ticks(e.timestamp) >=
                                              Ticks(DaysBefore(AnalyticsNow, an_days))))) :
         LET sleep_sessions == StatsScan(q, NoStart, <<>>)
             total_sleep_time == SumSeq(sleep_sessions)
         IN  an_result' =
                 [op |-> "get_sleep_stats", empty |-> FALSE,
                  total_sleep_sessions |-> Len(sleep_sessions),
                  total_sleep_time |-> total_sleep_time,
                  total_sleep_hours |-> Round1(total_sleep_time, HalfSecondsPerHour),
                  average_sleep_duration |->
                      IF sleep_sessions = <<>> THEN 0
                      ELSE Round1(total_sleep_time, HalfSecondsPerHour * Len(sleep_sessions)),
                  daily_sleep_average |->
                      Round1(total_sleep_time, HalfSecondsPerHour * an_days)]
    /\ UNCHANGED <<an_events, an_days, an_sessions, an_done>>
    /\ UNCHANGED <<connVars, mapVars, storeVars, sleepVars, logVars, normVars, migVars, raceVars>>

\* _calculate_sleep_sessions on the sleep events of the same range, as
\* get_sleep_analytics calls it
SessionsOfRange ==
    /\ ~an_done
    /\ \E q \in GetEventsByDateRange(an_events, DaysBefore(AnalyticsNow, an_days),
                                        AnalyticsNow) :
         an_sessions' = CalculateSleepSessions(SleepEvents(MapEventDict(q)))
    /\ an_done' = TRUE
    /\ UNCHANGED <<an_events, an_days, an_result>>
    /\ UNCHANGED <<connVars, mapVars, storeVars, sleepVars, logVars, normVars, migVars, raceVars>>

(***************************************************************************)
(* Concurrent calls of the mapping store (device_manager.py)               *)
(* _store_mapping and _delete_mapping load the file, change the list and   *)
(* write the file back; a call is a load step and a write step.            *)
(***************************************************************************)
IdleWorker == [pc |-> "idle", mappings |-> <<>>, device_id |-> <<>>, mapping_id |-> 0]

Busy(c) == mapWorkers[c].pc # "idle"

\* _store_mapping: mappings = self._load_mappings()
StoreMappingLoad(c) ==
    \E d \in Discovered :
        /\ ~Busy(c)
        /\ Len(mapOps) + Cardinality({k \in Callers : Busy(k)}) < MaxMapOps
        /\ Len(mapfile) < MaxMappings
        /\ mapWorkers' = [mapWorkers EXCEPT ![c] =
                             [pc |-> "add", mappings |-> mapfile, device_id |-> d,
                              mapping_id |-> 0]]
        /\ overlapped' = (overlapped \/ \E k \in Callers \ {c} : Busy(k))
        /\ UNCHANGED <<mapOps, mapVars>>
        /\ UNCHANGED <<connVars, storeVars, sleepVars, logVars, normVars, anVars, migVars>>

\* _store_mapping: the new id, append, json.dump of the whole list
StoreMappingWrite(c) ==
    /\ mapWorkers[c].pc = "add"
    /\ LET mappings == mapWorkers[c].mappings
           mapping_id == NewMappingId(mappings)
       IN  /\ mapfile' = Append(mappings, Row(mapping_id, mapWorkers[c].device_id,
                                              <<"press">>, "feeding_start"))
           /\ mapOps' = Append(mapOps, [op |-> "add", id |-> mapping_id,
                                        device_id |-> mapWorkers[c].device_id])
    /\ mapWorkers' = [mapWorkers EXCEPT ![c] = IdleWorker]
    /\ UNCHANGED <<overlapped, dbmaps, resolved, mapIssued, mapCall>>
    /\ UNCHANGED <<connVars, storeVars, sleepVars, logVars, normVars, anVars, migVars>>

\* _delete_mapping: mappings = self._load_mappings()
DeleteMappingLoad(c) ==
    \E id \in 1..(MaxMappings + 1) :
        /\ ~Busy(c)
        /\ Len(mapOps) + Cardinality({k \in Callers : Busy(k)}) < MaxMapOps
        /\ mapWorkers' = [mapWorkers EXCEPT ![c] =
                             [pc |-> "delete", mappings |-> mapfile, device_id |-> <<>>,
                              mapping_id |-> id]]
        /\ overlapped' = (overlapped \/ \E k \in Callers \ {c} : Busy(k))
        /\ UNCHANGED <<mapOps, mapVars>>
        /\ UNCHANGED <<connVars, storeVars, sleepVars, logVars, normVars, anVars, migVars>>

\* _delete_mapping: the file is written only when a row was removed
DeleteMappingWrite(c) ==
    /\ mapWorkers[c].pc = "delete"
    /\ LET kept == WithoutId(mapWorkers[c].mappings, mapWorkers[c].mapping_id)
       IN  IF Len(kept) < Len(mapWorkers[c].mappings)
           THEN mapfile' = kept
           ELSE mapfile' = mapfile
    /\ mapOps' = Append(mapOps, [op |-> "delete", id |-> mapWorkers[c].mapping_id,
                                 device_id |-> <<>>])
    /\ mapWorkers' = [mapWorkers EXCEPT ![c] = IdleWorker]
    /\ UNCHANGED <<overlapped, dbmaps, resolved, mapIssued, mapCall>>
    /\ UNCHANGED <<connVars, storeVars, sleepVars, logVars, normVars, anVars, migVars>>

StoreLoad == \E c \in Callers : StoreMappingLoad(c)
StoreWrite == \E c \in Callers : StoreMappingWrite(c)
DeleteLoad == \E c \in Callers : DeleteMappingLoad(c)
DeleteWrite == \E c \in Callers : DeleteMappingWrite(c)

IdleRace ==
    /\ mapWorkers = [c \in Callers |-> IdleWorker]
    /\ mapOps = <<>>
    /\ overlapped = FALSE

(***************************************************************************)
(* Specifications                                                          *)
(***************************************************************************)
IdleConn ==
    /\ connected = FALSE
    /\ reconnect_delay = InitialReconnectDelay
    /\ timers = <<>>
    /\ sock = "none"
    /\ loopRunning = FALSE
    /\ disconnectCalled = FALSE
    /\ rc0Pending = FALSE
    /\ last = [op |-> "none", rc |-> 0]
    /\ nSched = 0
    /\ lastSched = 0
    /\ wire = <<>>
    /\ closed = FALSE

IdleMap ==
    /\ mapfile = <<>>
    /\ dbmaps = <<>>
    /\ resolved = NotResolved
    /\ mapIssued = <<>>
    /\ mapCall = NoMapCall

InitConnSpec ==
    InitConn /\ IdleMap /\ InitStore /\ IdleSleep /\ IdleLog /\ IdleNorm /\ IdleAn /\ IdleRace /\ IdleMig

NextConn ==
    \/ TimerFire
    \/ OnConnect
    \/ OnDisconnectLost
    \/ OnDisconnectClean
    \/ LoopReconnect
    \/ Disconnect

\* the connector on its own
SpecConn == InitConnSpec /\ [][NextConn]_vars

InitStoreSpec ==
    /\ IdleConn
    /\ mapfile \in IngestMapFiles
    /\ dbmaps = <<>>
    /\ resolved = NotResolved
    /\ mapIssued = <<>>
    /\ mapCall = NoMapCall
    /\ InitStore
    /\ IdleSleep
    /\ IdleLog
    /\ IdleNorm
    /\ IdleRace
    /\ IdleMig
    /\ IdleAn

NextStore ==
    \/ Arrive
    \/ LinkReset
    \/ OnMessage
    \/ OnDeviceEventCommit
    \/ ApiAddEvent
    \/ ApiCommit
    \/ Tick

\* ingestion of broker messages and API appends into the event store
SpecStore == InitStoreSpec /\ [][NextStore]_vars

InitMapSpec ==
    /\ IdleConn
    /\ InitStore
    /\ IdleSleep
    /\ IdleLog
    /\ IdleNorm
    /\ IdleRace
    /\ IdleMig
    /\ IdleAn
    /\ mapfile \in StoredMappings
    /\ dbmaps \in StoredMappings
    /\ resolved = NotResolved
    /\ mapIssued = <<>>
    /\ mapCall = NoMapCall

NextMap ==
    \/ AddMapping
    \/ DeleteMapping
    \/ DbAddMapping
    \/ DbDeleteMapping
    \/ Resolve

\* the two mapping stores and their resolvers
SpecMap == InitMapSpec /\ [][NextMap]_vars

InitSleepSpec ==
    /\ IdleConn
    /\ IdleMap
    /\ InitStore
    /\ IdleLog
    /\ IdleNorm
    /\ IdleRace
    /\ IdleMig
    /\ IdleAn
    /\ sleep_events \in SeqsUpTo(SleepEvent, MaxSleepEvents)
    /\ sessions = <<>>
    /\ sleepDone = FALSE

NextSleep == RunSleepSessions

\* sleep-session reconstruction over every bounded list of sleep events
SpecSleep == InitSleepSpec /\ [][NextSleep]_vars

InitLogSpec ==
    IdleConn /\ IdleMap /\ InitStore /\ IdleSleep /\ IdleLog /\ IdleNorm /\ IdleAn /\ IdleRace /\ IdleMig

NextLog ==
    \/ AddEvent
    \/ DeleteEvent
    \/ CleanupOldData
    \/ Advance
    \/ GetEvents

\* the event table under appends, deletes, retention cleanup and queries
SpecLog == InitLogSpec /\ [][NextLog]_vars

NextEdit ==
    \/ AddEvent
    \/ Advance
    \/ UpdateEvent

\* the event table under appends and updates
SpecEdit == InitLogSpec /\ [][NextEdit]_vars

\* the handler runs while the client is connected or not
InitNormSpec ==
    /\ connected \in BOOLEAN
    /\ reconnect_delay = InitialReconnectDelay
    /\ timers = <<>>
    /\ sock = (IF connected THEN "up" ELSE "none")
    /\ loopRunning = TRUE
    /\ disconnectCalled = FALSE
    /\ rc0Pending = FALSE
    /\ last = [op |-> "none", rc |-> 0]
    /\ nSched = 0
    /\ lastSched = 0
    /\ wire = <<>>
    /\ closed = FALSE
    /\ IdleMap
    /\ InitStore
    /\ IdleSleep
    /\ IdleLog
    /\ IdleNorm
    /\ IdleRace
    /\ IdleMig
    /\ IdleAn

NextNorm ==
    \/ Deliver
    \/ HandleMessage

\* the message handler with every message of the model
SpecNorm == InitNormSpec /\ [][NextNorm]_vars

\* ---- the live status over every bounded list of stored events ----
\* the stored events in insertion order, one per hour of day 1
LiveInputs ==
    UNION { { [i \in 1..n |-> [event_type |-> ty[i],
                               timestamp |-> [day |-> 1, hour |-> i, micro |-> 0]]] :
              ty \in [1..n -> LiveTypes] } : n \in 0..MaxStored }

InitLiveSpec ==
    /\ IdleConn
    /\ IdleMap
    /\ InitStore
    /\ IdleSleep
    /\ IdleLog
    /\ IdleNorm
    /\ IdleRace
    /\ IdleMig
    /\ an_events \in LiveInputs
    /\ an_days = 0
    /\ an_sessions = <<>>
    /\ an_result = NoResult
    /\ an_done = FALSE

NextLive == GetLiveStats

SpecLive == InitLiveSpec /\ [][NextLive]_vars

\* ---- the sleep analytics: one sleep of any start and end hour, and a nap ----
HoursOfDay == 0..23

At(d, h) == [day |-> d, hour |-> h, micro |-> 0]

Nap == <<[event_type |-> "sleep_start", timestamp |-> At(3, 13)],
         [event_type |-> "wake_up", timestamp |-> At(3, 15)]>>

NightInputs ==
    { <<[event_type |-> "sleep_start", timestamp |-> At(2, h1)],
        [event_type |-> "wake_up", timestamp |-> At(d2, h2)]>> \o nap :
      h1 \in HoursOfDay, h2 \in HoursOfDay, d2 \in {2, 3}, nap \in {<<>>, Nap} }

InitNightSpec ==
    /\ IdleConn
    /\ IdleMap
    /\ InitStore
    /\ IdleSleep
    /\ IdleLog
    /\ IdleNorm
    /\ IdleRace
    /\ IdleMig
    /\ an_events \in NightInputs
    /\ an_days \in 0..MaxDays
    /\ an_sessions = <<>>
    /\ an_result = NoResult
    /\ an_done = FALSE

NextNight == GetSleepAnalytics

SpecNight == InitNightSpec /\ [][NextNight]_vars

\* ---- the interval figures over every bounded list of diaper changes ----
IntervalHours == {8, 11, 12}

IntervalEvent ==
    [event_type : {"diaper_pee", "diaper_poo"},
     timestamp : [day : {1}, hour : IntervalHours, micro : Micros]]

InitIntervalSpec ==
    /\ IdleConn
    /\ IdleMap
    /\ InitStore
    /\ IdleSleep
    /\ IdleLog
    /\ IdleNorm
    /\ IdleRace
    /\ IdleMig
    /\ an_events \in SeqsUpTo(IntervalEvent, MaxIntervalEvents)
    /\ an_days = 0
    /\ an_sessions = <<>>
    /\ an_result = NoResult
    /\ an_done = FALSE

NextInterval == IntervalStats

SpecInterval == InitIntervalSpec /\ [][NextInterval]_vars

\* ---- the migrations from every recorded version to every target ----
Targets == {AllVersions[i] : i \in 1..Len(AllVersions)} \cup {APP_VERSION}

InitMigSpec ==
    /\ IdleConn
    /\ IdleMap
    /\ InitStore
    /\ IdleSleep
    /\ IdleLog
    /\ IdleNorm
    /\ IdleRace
    /\ IdleAn
    /\ db_exists \in BOOLEAN
    /\ schema_version \in
         IF db_exists THEN {<<>>} \cup {<<AllVersions[i]>> : i \in 1..Len(AllVersions)}
         ELSE {<<>>}
    /\ mig_target \in Targets
    /\ mig_last = NoRun
    /\ mig_runs = 0

NextMig == RunMigrations

SpecMig == InitMigSpec /\ [][NextMig]_vars

\* ---- concurrent adds and deletes on the mapping file ----
InitRaceSpec ==
    /\ IdleConn
    /\ InitStore
    /\ IdleSleep
    /\ IdleLog
    /\ IdleNorm
    /\ IdleAn
    /\ IdleMig
    /\ IdleRace
    /\ mapfile \in StoredMappings
    /\ dbmaps = <<>>
    /\ resolved = NotResolved
    /\ mapIssued = <<>>
    /\ mapCall = NoMapCall

NextRace ==
    \/ StoreLoad
    \/ StoreWrite
    \/ DeleteLoad
    \/ DeleteWrite

SpecRace == InitRaceSpec /\ [][NextRace]_vars

\* ---- range queries over tables around the limit ----
\* row i was stored at hour i of a day inside or outside the last days
RangeInputs ==
    UNION { { [i \in 1..n |-> [event_type |-> "diaper_pee", timestamp |-> At(d[i], i)]] :
              d \in [1..n -> {1, 3}] } : n \in 0..(RangeLimit + 1) }

InitRangeSpec ==
    /\ IdleConn
    /\ IdleMap
    /\ InitStore
    /\ IdleSleep
    /\ IdleLog
    /\ IdleNorm
    /\ IdleMig
    /\ IdleRace
    /\ an_events \in RangeInputs
    /\ an_days \in 0..MaxDays
    /\ an_sessions = <<>>
    /\ an_result = NoResult
    /\ an_done = FALSE

NextRange == QueryRange

SpecRange == InitRangeSpec /\ [][NextRange]_vars

\* ---- weekly statistics over a night and a nap ----
InitWeekSpec ==
    /\ IdleConn
    /\ IdleMap
    /\ InitStore
    /\ IdleSleep
    /\ IdleLog
    /\ IdleNorm
    /\ IdleMig
    /\ IdleRace
    /\ an_events \in NightInputs
    /\ an_days \in {7 * weeks_back : weeks_back \in 1..MaxWeeks}
    /\ an_sessions = <<>>
    /\ an_result = NoResult
    /\ an_done = FALSE

NextWeek == GetWeeklyStats

SpecWeek == InitWeekSpec /\ [][NextWeek]_vars

\* ---- the two reconstructions of sleep sessions over the same events ----
StatsDays == 7       \* get_sleep_stats(days: int = 7)

InitStatsSpec ==
    /\ IdleConn
    /\ IdleMap
    /\ InitStore
    /\ IdleSleep
    /\ IdleLog
    /\ IdleNorm
    /\ IdleMig
    /\ IdleRace
    /\ an_events \in SeqsUpTo(SleepEvent, MaxSleepEvents)
    /\ an_days = StatsDays
    /\ an_sessions = <<>>
    /\ an_result = NoResult
    /\ an_done = FALSE

NextStats ==
    \/ GetSleepStats
    \/ SessionsOfRange

SpecStats == InitStatsSpec /\ [][NextStats]_vars

(***************************************************************************)
(* Claims about the connector                                              *)
(***************************************************************************)
\* the n-th delay of the backoff sequence 5, 10, 20, 40, 80, 160, 300, 300, ...
BackoffDelay(n) == IF n >= 7 THEN 300 ELSE 5 * (2 ^ (n - 1))

\* C1: the n-th retry scheduled since the last successful connect (or since
\* construction) uses the n-th delay of 5, 10, 20, 40, 80, 160, 300, 300, ...;
\* in particular the first retry scheduled after a successful connect uses 5.
C1_BackoffSequence == nSched > 0 => lastSched = BackoffDelay(nSched)

\* C1 witness: eight retries in a row were scheduled and the delay stays at the cap
C1_Witness == nSched = 8 /\ lastSched = 300 /\ last.op = "_connect" /\ last.rc = 1

\* C3: once disconnect() has been called no reconnect timer runs _connect.
C3_NoConnectAfterDisconnect == ~(disconnectCalled /\ last.op = "_connect")

\* C9: a disconnect notification with rc != 0 schedules exactly one reconnection
\* with the delay current at that moment and then doubles the delay up to 300;
\* a notification with rc = 0 schedules nothing and leaves the delay unchanged.
C9_DisconnectSchedules ==
    [][ last'.op = "_on_disconnect" =>
          IF last'.rc # 0
          THEN /\ Len(timers') = Len(timers) + 1
               /\ SubSeq(timers', 1, Len(timers)) = timers
               /\ timers'[Len(timers')] = reconnect_delay
               /\ reconnect_delay' =
                    (IF 2 * reconnect_delay > 300 THEN 300 ELSE 2 * reconnect_delay)
          ELSE /\ timers' = timers
               /\ reconnect_delay' = reconnect_delay ]_vars

\* C9 witness: a disconnect notification with rc != 0 arrived while a retry
\* was pending and its reconnection was scheduled after 160 seconds
C9_Witness ==
    /\ last = [op |-> "_on_disconnect", rc |-> 1]
    /\ Len(timers) = 2
    /\ lastSched = 160

EventsOf(seq) == {i \in 1..Len(events) : events[i].origin = <<"msg", seq>>}

\* C5: no two appends return the same id and no two stored events share an
\* id, however the appends of the API requests and of the loop thread
\* interleave.
C5_UniqueIds ==
    /\ \A i, j \in 1..Len(events) : i # j => events[i].id # events[j].id
    /\ \A i, j \in 1..Len(returned) : i # j => returned[i] # returned[j]

\* C5 witness: an append has returned while an API request and the loop
\* thread were both inside add_event, and two events are stored
C5_Witness ==
    /\ Len(events) >= 2
    /\ Len(returned) >= 2
    /\ handler.pc = "add_event"
    /\ \E c \in Callers : callers[c].pc = "add_event"

ResolveContract(rows, device_id, trigger_type, result) ==
    LET registered == {i \in 1..Len(rows) : Matches(rows[i], device_id, trigger_type)}
        enabled == {i \in registered : ~Disabled(rows[i])}
    IN  /\ registered = {} => result = NoMapping
        /\ enabled # {} => \E i \in enabled : result = rows[i]
        /\ result # NoMapping => ~Disabled(result)

RankOf(evs, k) ==
    1 + Cardinality({j \in 1..Len(evs) :
            \/ Ticks(evs[j].timestamp) < Ticks(evs[k].timestamp)
            \/ (Ticks(evs[j].timestamp) = Ticks(evs[k].timestamp) /\ j < k)})

InTimeOrder(evs) ==
    [r \in 1..Len(evs) |-> evs[CHOOSE k \in 1..Len(evs) : RankOf(evs, k) = r]]

\* the closed sessions: a sleep_start directly followed in time by a wake_up
ClosedAt(ordered) ==
    {r \in 1..(Len(ordered) - 1) :
        ordered[r].event_type = "sleep_start" /\ ordered[r + 1].event_type = "wake_up"}

RECURSIVE SumOver(_, _)
SumOver(ordered, rs) ==
    IF rs = {} THEN 0
    ELSE LET r == CHOOSE x \in rs : TRUE
         IN  (Ticks(ordered[r + 1].timestamp) - Ticks(ordered[r].timestamp))
             + SumOver(ordered, rs \ {r})

\* C2: the total reconstructed sleep time is the sum of wake_up time minus
\* sleep_start time over the closed sessions of the events in ascending time
\* order; an unmatched wake_up and an open sleep_start produce no session.
C2_TotalIsSumOfClosedSessions ==
    sleepDone =>
        LET ordered == InTimeOrder(sleep_events)
        IN  /\ Len(sessions) = Cardinality(ClosedAt(ordered))
            /\ SumDurations(sessions) = SumOver(ordered, ClosedAt(ordered))
            /\ CalculateSleepDuration(MapEventDict(sleep_events)) = SumDurations(sessions)
            /\ \A k \in 1..Len(sessions) : sessions[k].duration >= 0

\* C2 witness: three events given out of time order, with a wake_up that has
\* no sleep_start before it, gave one session of more than an hour
C2_Witness ==
    /\ sleepDone
    /\ Len(sleep_events) = 3
    /\ Ticks(sleep_events[1].timestamp) > Ticks(sleep_events[3].timestamp)
    /\ sleep_events[3].event_type = "wake_up"
    /\ sleep_events[2].event_type = "sleep_start"
    /\ sleep_events[1].event_type = "wake_up"
    /\ Ticks(sleep_events[3].timestamp) < Ticks(sleep_events[2].timestamp)
    /\ Len(sessions) = 1
    /\ SumDurations(sessions) > HalfSecondsPerHour

\* the closed sessions of the events in time order, as (start, end) pairs of
\* isoformat strings, in time order
RECURSIVE ClosedPairs(_)
ClosedPairs(ordered) ==
    IF Len(ordered) < 2 THEN <<>>
    ELSE (IF ordered[1].event_type = "sleep_start" /\ ordered[2].event_type = "wake_up"
          THEN << <<Isoformat(ordered[1].timestamp), Isoformat(ordered[2].timestamp)>> >>
          ELSE <<>>) \o ClosedPairs(Tail(ordered))

\* C11: a sleep_start that comes while a session is open replaces the start:
\* each session runs from the latest sleep_start before its wake_up to that
\* wake_up, and a sleep_start followed in time by another sleep_start gives
\* no session.
C11_LatestStartWins ==
    sleepDone =>
        [k \in 1..Len(sessions) |-> <<sessions[k].start_time, sessions[k].end_time>>]
            = ClosedPairs(InTimeOrder(sleep_events))

\* C11 witness: two sleep_start events at different times, then a wake_up;
\* the one session starts at the later sleep_start
C11_Witness ==
    /\ sleepDone
    /\ Len(sleep_events) = 3
    /\ sleep_events[1].event_type = "sleep_start"
    /\ sleep_events[2].event_type = "sleep_start"
    /\ sleep_events[3].event_type = "wake_up"
    /\ Ticks(sleep_events[1].timestamp) < Ticks(sleep_events[2].timestamp)
    /\ Ticks(sleep_events[2].timestamp) < Ticks(sleep_events[3].timestamp)
    /\ Len(sessions) = 1
    /\ sessions[1].start_time = Isoformat(sleep_events[2].timestamp)

\* C12: every reconstructed session ends strictly after it starts, also when
\* a sleep_start and a wake_up carry the same timestamp.
C12_EndAfterStart ==
    sleepDone =>
        \A k \in 1..Len(sessions) :
            /\ sessions[k].duration > 0
            /\ StrLess(sessions[k].start_time, sessions[k].end_time)

\* C25: the analytics computed over the same unchanged events are the same
\* whatever the order in which the store returns events sharing a timestamp.
C25_SameEventsSameResult ==
    sleepDone =>
        \A other \in TieOrders(sleep_events) :
            CalculateSleepSessions(MapEventDict(other)) = sessions

(***************************************************************************)
(* Claims about the event table                                            *)
(***************************************************************************)
\* C13: event ids are strictly increasing in append order over appends,
\* deletes and retention cleanup (an id returned by add_event is greater than
\* every id returned before), and a stored event keeps the id it was given.
C13_IdsStrictlyIncreasing ==
    /\ \A i, j \in 1..Len(issued) : i < j => issued[i].id < issued[j].id
    /\ \A k \in 1..Len(log) : log[k].id = issued[log[k].seq].id

\* the stored events a query with the arguments of the answer has to select
Selected ==
    {log[k] : k \in {n \in 1..Len(log) :
        /\ (answer.event_type # NoType => log[n].event_type = answer.event_type)
        /\ (answer.start_date # NoDate => answer.start_date <= log[n].timestamp)
        /\ (answer.end_date # NoDate => log[n].timestamp <= answer.end_date)}}

InResult(row) == \E k \in 1..Len(answer.result) : answer.result[k] = row

C14_MappingIdsMonotonic ==
    /\ \A i, j \in 1..Len(mapIssued) : i < j => mapIssued[i] < mapIssued[j]
    /\ \A i, j \in 1..Len(mapfile) : i # j => mapfile[i].id # mapfile[j].id

(***************************************************************************)
(* Claims about the normalizer and the message handler                     *)
(***************************************************************************)
\* the payload is a JSON object (or text, taken as {value: text}) with field k
PayloadHas(payload, k) ==
    \/ payload.kind = "dict" /\ k \in DOMAIN payload.f
    \/ payload.kind = "text" /\ k = "value"

PayloadValue(payload, k) == IF payload.kind = "text" THEN payload.text ELSE payload.f[k]

\* the first field of the list that the payload has
RECURSIVE FirstPresent(_, _)
FirstPresent(payload, fields) ==
    IF fields = <<>> THEN ""
    ELSE IF PayloadHas(payload, fields[1]) THEN fields[1]
    ELSE FirstPresent(payload, Tail(fields))

ZigbeeFields == <<"action", "state", "contact", "occupancy">>

\* C17: for a zigbee message on a topic that is not an availability or
\* link-quality topic, topics ending in /action included, the event type
\* carries the value of the first payload field present in the order action,
\* state, contact, occupancy, and the device id is zigbee2mqtt_<segment 2>.
C17_ZigbeePrecedence ==
    \A k \in 1..Len(nlog) :
        LET r == nlog[k]
            first == FirstPresent(r.payload, ZigbeeFields)
        IN  (/\ r.topic[1] = "zigbee2mqtt"
             /\ r.topic[Len(r.topic)] \notin {"availability", "linkquality"}
             /\ first # "")
            => /\ r.device_info.ok
               /\ r.device_info.device_id = <<"zigbee2mqtt_", r.topic[2]>>
               /\ r.device_info.event_type[2] = PayloadValue(r.payload, first)
               /\ (first = "action" => r.device_info.event_type[1] = "action_")

\* C18: a home-automation message on homeassistant/<domain>/<entity>/state
\* with domain switch, binary_sensor, sensor or button gives device id
\* ha_<entity> and event type state_<v>, v the state field if present and
\* else the value field.
C18_HomeAssistantState ==
    \A k \in 1..Len(nlog) :
        LET r == nlog[k]
            first == FirstPresent(r.payload, <<"state", "value">>)
        IN  (/\ r.topic[1] = "homeassistant"
             /\ Len(r.topic) = 4
             /\ r.topic[2] \in {"switch", "binary_sensor", "sensor", "button"}
             /\ r.topic[4] = "state"
             /\ first # "")
            => /\ r.device_info.ok
               /\ r.device_info.device_id = <<"ha_", r.topic[3]>>
               /\ r.device_info.event_type = <<"state_", PayloadValue(r.payload, first)>>

\* the fields each dialect reads from the payload
FieldsRead(prefix) ==
    IF prefix = "zigbee2mqtt" THEN ZigbeeFields
    ELSE IF prefix = "homeassistant" THEN <<"state", "value">>
    ELSE <<"action", "value">>

\* C19: a message gives no NormalizedEvent and no callback when its topic
\* prefix is none of the four dialect prefixes, or when its payload has none
\* of the fields its dialect reads (the custom dialect reads none and takes
\* the event type from the topic); so a z-wave /action message with neither
\* action nor value gives no event.
C19_NoFieldNoEvent ==
    \A k \in 1..Len(nlog) :
        LET r == nlog[k]
        IN  (\/ r.topic[1] \notin {"zigbee2mqtt", "homeassistant", "zwave",
                                   "baby_care_tracker"}
             \/ /\ r.topic[1] \in {"zigbee2mqtt", "homeassistant", "zwave"}
                /\ FirstPresent(r.payload, FieldsRead(r.topic[1])) = "")
            => ~r.device_info.ok /\ ~r.called

\* C20: no failure while a message is handled leaves _on_message; the
\* connection state stays as it was and the next message is handled as if
\* nothing had failed (the callback is called exactly when the message is
\* decodable and normalizes).
C20_HandlerContainsFailures ==
    /\ ~escaped
    /\ \A k \in 1..Len(nlog) :
           /\ nlog[k].connected = connected
           /\ nlog[k].called =
                  (/\ nlog[k].payload.kind # "bytes"
                   /\ ParseDeviceMessage(nlog[k].topic, nlog[k].payload).ok)

\* C20 witness: the callback raised for the first message, the second could
\* not be decoded, and both were handled
C20_Witness ==
    /\ Len(nlog) = 2
    /\ connected
    /\ nlog[1].called /\ nlog[1].raised
    /\ nlog[2].payload.kind = "bytes" /\ nlog[2].raised /\ ~nlog[2].called
    /\ nmsg = NoMessage

(***************************************************************************)
(* Claims about the connector's status messages and delay                  *)
(***************************************************************************)
\* C30: in every reachable state of the connector the reconnect delay is one
\* of 5, 10, 20, 40, 80, 160, 300.
C30_DelayInRange ==
    /\ reconnect_delay \in {5, 10, 20, 40, 80, 160, 300}
    /\ \A i \in 1..Len(timers) : timers[i] \in {5, 10, 20, 40, 80, 160, 300}

\* C30 witness: the delay has reached the ceiling after a refused connect
\* attempt and stays there
C30_Witness ==
    /\ reconnect_delay = 300
    /\ lastSched = 300
    /\ last = [op |-> "_connect", rc |-> 1]

\* C26: after every successful connect, reconnects included, the connector
\* issues its subscriptions and then sends the retained "online" status; no
\* "online" status is sent while it is not connected.
C26_OnlineAfterConnect ==
    /\ (last = [op |-> "_on_connect", rc |-> 0]) => wire = <<"SUBSCRIBE", "online">>
    /\ (\E i \in 1..Len(wire) : wire[i] = "online") =>
           connected /\ last = [op |-> "_on_connect", rc |-> 0]

\* C26 witness: a reconnect after a lost connection has sent "online" again
C26_Witness ==
    /\ last = [op |-> "_on_connect", rc |-> 0]
    /\ wire = <<"SUBSCRIBE", "online">>
    /\ timers # <<>>
    /\ ~disconnectCalled

\* C27: whenever disconnect() closes the connection the retained "offline"
\* status has been published before the close, and nothing is published
\* after the close.
C27_OfflineBeforeClose ==
    /\ (last.op = "disconnect" /\ wire # <<>>) => wire = <<"offline", "DISCONNECT">>
    /\ (closed /\ last.op # "disconnect") =>
           \A i \in 1..Len(wire) : wire[i] \notin {"online", "offline"}

(***************************************************************************)
(* Claims about the analytics                                              *)
(***************************************************************************)
\* the sleep events among the scanned events, newest first
SleepAmong(recent) == SelectSeq(recent, LAMBDA e : e.event_type \in {"sleep_start", "wake_up"})

\* C21: the live status is "sleeping" if the first sleep event met among the
\* most recent events, newest first, is a sleep_start, "awake" if it is a
\* wake_up, and "unknown" if the scanned events hold no sleep event.
C21_LiveStatus ==
    (an_done /\ an_result.op = "get_live_stats") =>
        LET met == SleepAmong(GetRecentEvents(an_events, LiveLimit))
        IN  an_result.sleep_status =
                IF met = <<>> THEN "unknown"
                ELSE IF met[1].event_type = "sleep_start" THEN "sleeping" ELSE "awake"

NightStartHours == (18..23) \cup {0, 1, 2}
NightEndHours == 5..10

RECURSIVE InsertAsc(_, _)
InsertAsc(sorted, x) ==
    IF sorted = <<>> THEN <<x>>
    ELSE IF x < sorted[1] THEN <<x>> \o sorted
    ELSE <<sorted[1]>> \o InsertAsc(Tail(sorted), x)

RECURSIVE AscendingTicks(_)
AscendingTicks(evs) ==
    IF evs = <<>> THEN <<>>
    ELSE InsertAsc(AscendingTicks(Tail(evs)), Ticks(evs[1].timestamp))

\* C23: over n >= 2 events the intervals are the n-1 differences between
\* consecutive times in ascending order, none negative and the same for
\* every input order; over n <= 1 events the list is empty and the average,
\* the shortest and the longest interval are 0.
C23_Intervals ==
    (an_done /\ an_result.op = "intervals") =>
        LET asc == AscendingTicks(an_events)
            n == Len(an_events)
        IN  /\ n >= 2 =>
                /\ Len(an_result.intervals) = n - 1
                /\ \A i \in 1..(n - 1) :
                     /\ an_result.intervals[i] = asc[i + 1] - asc[i]
                     /\ an_result.intervals[i] >= 0
            /\ n <= 1 =>
                /\ an_result.intervals = <<>>
                /\ an_result.average_interval_hours = 0
                /\ an_result.shortest_interval = 0
                /\ an_result.longest_interval = 0

\* C23 witness: changes at 11:00 and at 08:00, handed over newest first,
\* give the one interval of 3.0 hours and the average 3.0
C23_Witness ==
    /\ an_done
    /\ Len(an_events) = 2
    /\ an_events[1].timestamp = At(1, 11)
    /\ an_events[2].timestamp = At(1, 8)
    /\ an_result.intervals = <<3 * HalfSecondsPerHour>>
    /\ an_result.average_interval_hours = 30

\* C24: a metric that cannot be computed does not empty the result: the
\* other metrics are returned and the failed one is named.
C24_PartialResults ==
    (an_done /\ an_days = 0) =>
        /\ ~an_result.empty
        /\ an_result.total_sleep_sessions = Len(an_sessions)

(***************************************************************************)
(* Claims about cleanup and update of the event table                      *)
(***************************************************************************)
\* C28: a cleanup removes exactly the events older than the cutoff, leaves
\* every other event and every mapping as it was, and reports the number of
\* events it removed to its caller.
C28_CleanupContract ==
    [][opres'.op = "cleanup_old_data" =>
          /\ log' = SelectSeq(log, LAMBDA r : r.timestamp >= now - CleanupDays)
          /\ dbmaps' = dbmaps /\ mapfile' = mapfile
          /\ opres'.returns
          /\ opres'.count = Len(log) - Len(log')]_vars

\* C29: an update changes at most notes, duration and updated_at of the
\* event it names and leaves its id, event_type, timestamp, device_source,
\* trigger_data and created_at as they were, whatever the arguments; an
\* update of an id that is not stored changes nothing and reports failure.
C29_UpdateContract ==
    [][opres'.op = "update_event" =>
          /\ Len(log') = Len(log)
          /\ \A i \in 1..Len(log) :
               /\ log'[i].id = log[i].id
               /\ log'[i].event_type = log[i].event_type
               /\ log'[i].timestamp = log[i].timestamp
               /\ log'[i].device_source = log[i].device_source
               /\ log'[i].trigger_data = log[i].trigger_data
               /\ log'[i].created_at = log[i].created_at
               /\ log[i].id # opres'.event_id => log'[i] = log[i]
          /\ (\A i \in 1..Len(log) : log[i].id # opres'.event_id) =>
               log' = log /\ opres'.returns /\ ~opres'.ok]_vars

(***************************************************************************)
(* Claims about the connector's timers and its connected flag              *)
(***************************************************************************)
\* C31: at most one reconnection timer is pending at any time, also when
\* several disconnect notifications with rc # 0 arrive or one arrives while
\* a retry scheduled by a failed connect is pending.
C31_OneTimerPending == Len(timers) <= 1

NewerKnown(current, target) ==
    SelectSeq(AllVersions, LAMBDA v : TupleLess(current, v) /\ ~TupleLess(target, v))

\* C38: a run over an existing database applies every known migration newer
\* than the recorded version, up to the target, in ascending order, records
\* each applied version and raises nothing; the recorded version never
\* decreases and a run at the target applies nothing.
C38_MigrationsApplied ==
    mig_last.ran =>
        /\ ~mig_last.raised
        /\ mig_last.applied = NewerKnown(mig_last.before, mig_target)
        /\ Len(schema_version) >= Len(mig_last.applied)
        /\ SubSeq(schema_version, Len(schema_version) - Len(mig_last.applied) + 1,
                  Len(schema_version)) = mig_last.applied
        /\ ~TupleLess(GetCurrentVersion(schema_version), mig_last.before)

(***************************************************************************)
(* Claims about adding mappings                                            *)
(***************************************************************************)
\* the mapping rows add_mapping has stored
AddedRows == {i \in 1..Len(mapfile) : \E k \in 1..Len(mapIssued) : mapIssued[k] = mapfile[i].id}

\* C33: add_mapping for a device that is not discovered raises and leaves
\* the stored mappings unchanged, so every mapping it stored names a
\* discovered device, and a lookup that finds such a mapping was made for a
\* discovered device id.
C33_OnlyDiscoveredDevices ==
    [][/\ (mapCall'.op = "add_mapping" /\ mapCall'.device_id \notin Discovered) =>
             mapCall'.raised /\ mapfile' = mapfile /\ dbmaps' = dbmaps
       /\ \A i \in 1..Len(mapfile') :
             (\E k \in 1..Len(mapIssued') : mapIssued'[k] = mapfile'[i].id) =>
                 mapfile'[i].device_id \in Discovered
       /\ (resolved'.fresh /\ resolved'.file # NoMapping
           /\ \E k \in 1..Len(mapIssued') : mapIssued'[k] = resolved'.file.id) =>
             resolved'.device_id \in Discovered]_vars

\* C33 witness: with a mapping for a discovered device stored, an add for
\* the device custom_dev1 has raised
C33_Witness ==
    /\ mapCall = [op |-> "add_mapping", device_id |-> <<"custom_", "dev1">>, raised |-> TRUE]
    /\ AddedRows # {}

(***************************************************************************)
(* Claims about concurrent mapping calls                                   *)
(***************************************************************************)
AddsDone == {k \in 1..Len(mapOps) : mapOps[k].op = "add"}
DeletesDone == {k \in 1..Len(mapOps) : mapOps[k].op = "delete"}

InRange(e) ==
    /\ Ticks(e.timestamp) >= Ticks(DaysBefore(AnalyticsNow, an_days))
    /\ Ticks(e.timestamp) <= Ticks(AnalyticsNow)

\* C32: a range query returns every stored event whose time lies between
\* the start and the end of the range, however many events the range holds.
C32_WholeRange ==
    (an_result.op = "get_events_by_date_range") =>
        \A i \in 1..Len(an_events) :
            InRange(an_events[i]) =>
                \E j \in 1..Len(an_result.events) : an_result.events[j] = an_events[i]

(***************************************************************************)
(* Claims about the weekly statistics                                      *)
(***************************************************************************)
RECURSIVE SumSleepOfDays(_, _)
SumSleepOfDays(breakdown, dates) ==
    IF dates = {} THEN 0
    ELSE LET d == CHOOSE x \in dates : TRUE
         IN  breakdown[d].sleep_duration + SumSleepOfDays(breakdown, dates \ {d})

\* C35: in the weekly statistics the sleep hours of the days of the daily
\* breakdown add up to the total sleep hours of the sessions reconstructed
\* over the whole range, also when a session spans midnight.
C35_DailySleepAddsUp ==
    (an_result.op = "get_weekly_stats") =>
        \E q \in GetEventsByDateRange(an_events, DaysBefore(AnalyticsNow, an_days),
                                         AnalyticsNow) :
            SumSleepOfDays(an_result.daily_breakdown, DOMAIN an_result.daily_breakdown)
                = CalculateSleepDuration(SleepEvents(MapEventDict(q)))

\* the sessions of the range all start and end on the same day
NoSessionSpansMidnight ==
    \A q \in GetEventsByDateRange(an_events, DaysBefore(AnalyticsNow, an_days),
                                     AnalyticsNow) :
        \A k \in 1..Len(CalculateSleepSessions(SleepEvents(MapEventDict(q)))) :
            LET session == CalculateSleepSessions(SleepEvents(MapEventDict(q)))[k]
            IN  FromIsoformat(session.start_time).day = FromIsoformat(session.end_time).day

(***************************************************************************)
(* Claims about the two sleep reconstructions                              *)
(***************************************************************************)
\* C36: over the same stored events the sleep statistics of the store and
\* the session reconstruction of the analytics give the same number of
\* sessions and the same total of hours, also when events share a timestamp.
C36_SameSessions ==
    (an_done /\ an_result.op = "get_sleep_stats") =>
        /\ an_result.total_sleep_sessions = Len(an_sessions)
        /\ an_result.total_sleep_time = SumDurations(an_sessions)

\* no two of the stored events share a timestamp
DistinctTimestamps ==
    \A i, j \in 1..Len(an_events) :
        i # j => an_events[i].timestamp # an_events[j].timestamp

====
